---- MODULE Spec2Model ----
(***************************************************************************)
(* Label / workspace resolution of the Bazel LSP context (src/src/bazel.rs) *)
(*                                                                         *)
(* Paths are sequences of path segments (<<>> is the filesystem root "/"), *)
(* Option values are sequences of length <= 1, Results are records with an *)
(* `ok` flag.  Label text is a sequence of tokens: the delimiters "@", "/" *)
(* and ":" and name tokens.                                                *)
(***************************************************************************)
EXTENDS Integers, Sequences, FiniteSets, TLC

VARIABLES
    workspaces,   \* BazelContext.workspaces: root directory -> BazelWorkspace
    profile,      \* the client's call profile: successful info calls per root
    last          \* the request served last: its arguments, collaborator calls and result

vars == <<workspaces, profile, last>>

-----------------------------------------------------------------------------
(* Bounds *)

\* A request that would make the client answer info successfully for one
\* root more often than this is not issued.
MaxInfoOk == 2

-----------------------------------------------------------------------------
(* Option and Result values *)

None == <<>>
Some(v) == <<v>>
IsSome(o) == o # <<>>
Unwrap(o) == o[1]

Ok(v) == [ok |-> TRUE, val |-> v]
Err(e) == [ok |-> FALSE, err |-> e]

-----------------------------------------------------------------------------
(* Paths and URLs *)

\* Path::join for a relative right-hand side
Join(p, q) == p \o q

\* Path::join for one name; joining the empty name leaves the path
JoinName(p, name) == IF name = "" THEN p ELSE Append(p, name)

\* Path::parent: None for the root
Parent(p) == IF p = <<>> THEN None ELSE Some(SubSeq(p, 1, Len(p) - 1))

\* Path::file_name: None for the root
FileName(p) == IF p = <<>> THEN None ELSE Some(p[Len(p)])

\* Path::starts_with
StartsWith(p, prefix) ==
    /\ Len(prefix) <= Len(p)
    /\ SubSeq(p, 1, Len(prefix)) = prefix

\* Path::strip_prefix
StripPrefix(p, prefix) ==
    IF StartsWith(p, prefix)
    THEN Some(SubSeq(p, Len(prefix) + 1, Len(p)))
    ELSE None

\* Path::ancestors: the path itself first, the root last
Ancestors(p) == [i \in 1..(Len(p) + 1) |-> SubSeq(p, 1, Len(p) + 1 - i)]

\* LspUrl
File(p) == [scheme |-> "file", path |-> p]
Starlark(p) == [scheme |-> "starlark", path |-> p]
Other(p) == [scheme |-> "other", path |-> p]

-----------------------------------------------------------------------------
(* The filesystem the engine runs against                                   *)
(*                                                                          *)
(*   /ws              a workspace root (BUILD, pkg/BUILD.bazel, pkg/x,      *)
(*                    pkg/defs.bzl, pkg/sub/)                               *)
(*   /w2              a second workspace root                               *)
(*   /ob              output base of /ws; /ob/DO_NOT_BUILD_HERE = "/ws"     *)
(*   /ob/external/foo repository foo of /ws (BUILD, x, pkg/x)               *)
(*   /ob/external/bar repository bar (BUILD and BUILD.bazel), with its own  *)
(*                    marker naming "/w2"                                   *)
(*   /ob2/external    external store of /w2                                 *)
(*   /bad             holds a marker that cannot be read                    *)

MarkerName == "DO_NOT_BUILD_HERE"

\* content of the marker files, as the path string they hold
MarkerContent ==
    (<<"ob", MarkerName>> :> <<"ws">>)
    @@ (<<"ob", "external", "bar", MarkerName>> :> <<"w2">>)

\* regular files
Files ==
    { <<"ws", "BUILD">>, <<"ws", "pkg", "BUILD.bazel">>, <<"ws", "pkg", "x">>,
      <<"ws", "pkg", "defs.bzl">>,
      <<"ob", "external", "foo", "BUILD">>, <<"ob", "external", "foo", "x">>,
      <<"ob", "external", "foo", "pkg", "x">>,
      <<"ob", "external", "bar", "BUILD">>, <<"ob", "external", "bar", "BUILD.bazel">> }
    \cup DOMAIN MarkerContent

\* directories; /bad/DO_NOT_BUILD_HERE is a directory, so it exists and
\* cannot be read as a string
Dirs ==
    { <<>>, <<"ws">>, <<"ws", "pkg">>, <<"ws", "pkg", "sub">>, <<"w2">>, <<"ob">>, <<"ob", "external">>,
      <<"ob", "external", "foo">>, <<"ob", "external", "foo", "pkg">>,
      <<"ob", "external", "bar">>, <<"ob2">>, <<"ob2", "external">>, <<"bad">>,
      <<"bad", MarkerName>> }

\* Path::exists
Exists(p) == p \in Files \cup Dirs

\* fs::read_to_string
read_to_string(p) == IF p \in DOMAIN MarkerContent THEN Ok(MarkerContent[p]) ELSE Err("Io")

-----------------------------------------------------------------------------
(* The build-system client: info *)

\* What one call of client.info may answer: a failure, or the workspace's
\* metadata, which may differ from call to call (the legacy workspace name).
InfoOutcomes == {"fail", "unnamed", "myws", "foo"}

\* the output base bazel reports for a root
OutputBase(dir) == IF dir = <<"ws">> THEN <<"ob">> ELSE <<"ob2">>

\* client.info(dir)
info(dir, outcome) ==
    IF outcome = "fail"
    THEN Err("Info")
    ELSE Ok([workspace |-> dir,
             output_base |-> OutputBase(dir),
             workspace_name |-> IF outcome = "unnamed" THEN None ELSE Some(outcome)])

-----------------------------------------------------------------------------
(* BazelWorkspace *)

\* BazelContext.query_output_base
query_output_base == None

\* BazelWorkspace::from_bazel_info
from_bazel_info(i, qob) ==
    Ok([root |-> i.workspace,
        workspace_name |-> i.workspace_name,
        external_output_base |-> Join(i.output_base, <<"external">>),
        query_output_base |-> qob])

\* BazelWorkspace::get_repository_for_path: the repository whose directory
\* holds the path, and the path relative to it
get_repository_for_path(ws, path) ==
    LET rel == StripPrefix(path, ws.external_output_base)
    IN  IF IsSome(rel) /\ Unwrap(rel) # <<>>
        THEN Some(<<Head(Unwrap(rel)), Tail(Unwrap(rel))>>)
        ELSE None

\* BazelWorkspace::get_repository_for_lspurl
get_repository_for_lspurl(ws, url) ==
    IF url.scheme = "file"
    THEN LET r == get_repository_for_path(ws, url.path)
         IN  IF IsSome(r) THEN Some(Unwrap(r)[1]) ELSE None
    ELSE None

\* BazelWorkspace::get_repository_path: a PathBuf, never an absent value
get_repository_path(ws, repository_name) ==
    JoinName(ws.external_output_base, repository_name)

\* BazelWorkspace::get_repository_names: the workspace's own name and the
\* repositories of its external store
get_repository_names(ws) ==
    (IF IsSome(ws.workspace_name) THEN {Unwrap(ws.workspace_name)} ELSE {})
    \cup { d[Len(d)] : d \in { e \in Dirs : Parent(e) = Some(ws.external_output_base) } }

-----------------------------------------------------------------------------
(* BazelContext::workspace *)

\* infer_workspace_dir's loop over `dirs`: the first directory holding a
\* marker decides, and its marker is read
RECURSIVE find_marker(_)
find_marker(dirs) ==
    IF dirs = <<>>
    THEN Ok(None)
    ELSE LET file == Join(Head(dirs), <<MarkerName>>)
         IN  IF Exists(file)
             THEN LET content == read_to_string(file)
                  IN  IF content.ok THEN Ok(Some(content.val)) ELSE content
             ELSE find_marker(Tail(dirs))

\* faulty variant: the document's own path is searched too (no skip(1))
infer_workspace_dir_self(current_file) ==
    IF current_file.scheme = "file"
    THEN find_marker(Ancestors(current_file.path))
    ELSE Ok(None)

\* BazelContext::infer_workspace_dir
infer_workspace_dir(current_file) ==
    IF current_file.scheme = "file"
    THEN find_marker(Tail(Ancestors(current_file.path)))
    ELSE Ok(None)

\* The directory computed at the head of BazelContext::workspace
governing_dir(workspace_dir, current_file) ==
    IF IsSome(workspace_dir)
    THEN Ok(workspace_dir)
    ELSE infer_workspace_dir(current_file)

\* A lookup: the governing directory computed, the value returned, the
\* cache afterwards, and the calls of client.info made (the root asked for
\* and whether the client answered)
Lookup(dir, result, cache, calls) ==
    [dir |-> dir, result |-> result, cache |-> cache, calls |-> calls]

\* no lookup was made
NoLookup(cache) == Lookup(None, Ok(None), cache, <<>>)

\* faulty variant: a miss that succeeds is returned but not inserted
workspace_no_insert(cache, workspace_dir, current_file, outcome) ==
    LET dir == governing_dir(workspace_dir, current_file)
    IN  IF ~dir.ok THEN Lookup(Some(dir), dir, cache, <<>>)
        ELSE IF dir.val = None THEN Lookup(Some(dir), Ok(None), cache, <<>>)
        ELSE LET d == Unwrap(dir.val)
             IN  IF d \in DOMAIN cache
                 THEN Lookup(Some(dir), Ok(Some(cache[d])), cache, <<>>)
                 ELSE LET i == info(d, outcome)
                          call == <<[dir |-> d, ok |-> i.ok]>>
                      IN  IF ~i.ok THEN Lookup(Some(dir), i, cache, call)
                          ELSE Lookup(Some(dir),
                                      Ok(Some(from_bazel_info(i.val, query_output_base).val)),
                                      cache, call)

\* faulty variant: the cache is not consulted, every lookup asks the client
\* and replaces the entry
workspace_no_hit(cache, workspace_dir, current_file, outcome) ==
    LET dir == governing_dir(workspace_dir, current_file)
    IN  IF ~dir.ok THEN Lookup(Some(dir), dir, cache, <<>>)
        ELSE IF dir.val = None THEN Lookup(Some(dir), Ok(None), cache, <<>>)
        ELSE LET d == Unwrap(dir.val)
                 i == info(d, outcome)
                 call == <<[dir |-> d, ok |-> i.ok]>>
             IN  IF ~i.ok THEN Lookup(Some(dir), i, cache, call)
                 ELSE LET w == from_bazel_info(i.val, query_output_base)
                          inserted == [r \in DOMAIN cache \cup {d} |->
                                          IF r = d THEN w.val ELSE cache[r]]
                      IN  Lookup(Some(dir), Ok(Some(inserted[d])), inserted, call)

\* faulty variant: a failed info call leaves a default workspace in the cache
workspace_insert_on_failure(cache, workspace_dir, current_file, outcome) ==
    LET dir == governing_dir(workspace_dir, current_file)
    IN  IF ~dir.ok THEN Lookup(Some(dir), dir, cache, <<>>)
        ELSE IF dir.val = None THEN Lookup(Some(dir), Ok(None), cache, <<>>)
        ELSE LET d == Unwrap(dir.val)
             IN  IF d \in DOMAIN cache
                 THEN Lookup(Some(dir), Ok(Some(cache[d])), cache, <<>>)
                 ELSE LET i == info(d, outcome)
                          call == <<[dir |-> d, ok |-> i.ok]>>
                          w == from_bazel_info(
                                   IF i.ok THEN i.val
                                   ELSE [workspace |-> d, output_base |-> OutputBase(d),
                                         workspace_name |-> None],
                                   query_output_base)
                          inserted == [r \in DOMAIN cache \cup {d} |->
                                          IF r = d THEN w.val ELSE cache[r]]
                      IN  IF ~i.ok THEN Lookup(Some(dir), i, inserted, call)
                          ELSE Lookup(Some(dir), Ok(Some(inserted[d])), inserted, call)

\* BazelContext::workspace
workspace(cache, workspace_dir, current_file, outcome) ==
    LET dir == governing_dir(workspace_dir, current_file)
    IN  IF ~dir.ok THEN Lookup(Some(dir), dir, cache, <<>>)
        ELSE IF dir.val = None THEN Lookup(Some(dir), Ok(None), cache, <<>>)
        ELSE LET d == Unwrap(dir.val)
             IN  IF d \in DOMAIN cache
                 THEN Lookup(Some(dir), Ok(Some(cache[d])), cache, <<>>)
                 ELSE LET i == info(d, outcome)
                          call == <<[dir |-> d, ok |-> i.ok]>>
                      IN  IF ~i.ok THEN Lookup(Some(dir), i, cache, call)
                          ELSE LET w == from_bazel_info(i.val, query_output_base)
                               IN  IF ~w.ok THEN Lookup(Some(dir), w, cache, call)
                                   ELSE LET inserted ==
                                                [r \in DOMAIN cache \cup {d} |->
                                                    IF r = d THEN w.val ELSE cache[r]]
                                        IN  Lookup(Some(dir), Ok(Some(inserted[d])), inserted, call)

-----------------------------------------------------------------------------
(* The build-system client: dump_repo_mapping *)

\* What the client may answer within one request: a failure, an empty
\* table, or the tables of a module-based workspace, which differ with the
\* repository they are dumped for.
DumpOutcomes == {"fail", "empty", "bzlmod"}

EmptyMapping == [n \in {} |-> n]

\* client.dump_repo_mapping(workspace, repository)
dump_repo_mapping(ws, repository, outcome) ==
    IF outcome = "fail" THEN Err("DumpRepoMapping")
    ELSE IF outcome = "empty" THEN Ok(EmptyMapping)
    ELSE IF repository = ""
         THEN Ok(("" :> "") @@ ("app" :> "foo") @@ ("alias" :> "myws") @@ ("foo" :> "bar"))
    ELSE IF repository = "foo"
         THEN Ok(("app" :> "bar") @@ ("foo" :> "foo"))
    ELSE Ok(EmptyMapping)

repo_mapping_for_root(ws, current_file, outcome) ==
    dump_repo_mapping(ws, "", outcome)

\* BazelContext::repo_mapping_for_file
repo_mapping_for_file(ws, current_file, outcome) ==
    LET repository == get_repository_for_lspurl(ws, current_file)
        current_repository == IF IsSome(repository) THEN Unwrap(repository) ELSE ""
    IN  dump_repo_mapping(ws, current_repository, outcome)

-----------------------------------------------------------------------------
(* Label *)

Label(repo, package, name) == [repo |-> repo, package |-> package, name |-> name]

\* LabelRepo
LabelRepo(name) == [name |-> name]

IsName(token) == token \notin {"@", "/", ":"}

\* str::find: the first position of a token, 0 when it does not occur
Find(text, token) ==
    LET at == { i \in 1..Len(text) : text[i] = token }
    IN  IF at = {} THEN 0 ELSE CHOOSE i \in at : \A j \in at : i <= j

\* str::rfind: the last position of a token, 0 when it does not occur
RFind(text, token) ==
    LET at == { i \in 1..Len(text) : text[i] = token }
    IN  IF at = {} THEN 0 ELSE CHOOSE i \in at : \A j \in at : i >= j

\* a package text: names separated by "/"
IsPackageText(text) ==
    /\ \A i \in 1..Len(text) : IsName(text[i]) \/ text[i] = "/"
    /\ \A i \in 1..(Len(text) - 1) : ~(IsName(text[i]) /\ IsName(text[i + 1]))

\* what follows "//": [package[/package...]][:name]
parse_absolute(repo, rest) ==
    LET colon == Find(rest, ":")
        package_text == IF colon = 0 THEN rest ELSE SubSeq(rest, 1, colon - 1)
        package == SelectSeq(package_text, IsName)
        name_text == IF colon = 0 THEN <<>> ELSE SubSeq(rest, colon + 1, Len(rest))
    IN  IF ~IsPackageText(package_text) THEN Err("InvalidLabelSyntax")
        ELSE IF colon = 0
        THEN Ok(Label(repo, Some(package),
                      IF package = <<>> THEN "" ELSE package[Len(package)]))
        ELSE IF name_text = <<>> THEN Ok(Label(repo, Some(package), ""))
        ELSE IF Len(name_text) = 1 /\ IsName(name_text[1])
        THEN Ok(Label(repo, Some(package), name_text[1]))
        ELSE Err("InvalidLabelSyntax")

\* Label::parse, for the grammar [@[repository]]//[package[/package...]][:name]
\* and the package-less forms :name and name
parse(text) ==
    IF text = <<>> THEN Err("InvalidLabelSyntax")
    ELSE IF text[1] = "@"
    THEN LET body == Tail(text)
             slash == Find(body, "/")
         IN  IF /\ slash \in {1, 2}
                /\ Len(body) > slash
                /\ body[slash + 1] = "/"
                /\ slash = 2 => IsName(body[1])
             THEN parse_absolute(Some(LabelRepo(IF slash = 1 THEN "" ELSE body[1])),
                                 SubSeq(body, slash + 2, Len(body)))
             ELSE Err("InvalidLabelSyntax")
    ELSE IF Len(text) >= 2 /\ text[1] = "/" /\ text[2] = "/"
    THEN parse_absolute(None, SubSeq(text, 3, Len(text)))
    ELSE IF text = <<":">>
    THEN Ok(Label(None, None, ""))
    ELSE IF Len(text) = 2 /\ text[1] = ":" /\ IsName(text[2])
    THEN Ok(Label(None, None, text[2]))
    ELSE IF Len(text) = 1 /\ IsName(text[1])
    THEN Ok(Label(None, None, text[1]))
    ELSE Err("InvalidLabelSyntax")

-----------------------------------------------------------------------------
(* BazelContext::resolve_folder *)

\* the translation of an apparent repository name: repo_mapping.get(name)
\* .unwrap_or(name)
remote_repository_name(repo_mapping, name) ==
    IF name \in DOMAIN repo_mapping THEN repo_mapping[name] ELSE name

\* resolve_root, were the translated name compared with the workspace's name
resolve_root_translated(label, current_file, workspace_opt, outcome) ==
    IF label.repo = None
    THEN LET repository_name ==
                 IF IsSome(workspace_opt)
                 THEN get_repository_for_lspurl(Unwrap(workspace_opt), current_file)
                 ELSE None
         IN  IF IsSome(repository_name)
             THEN Ok(Some(get_repository_path(Unwrap(workspace_opt),
                                              Unwrap(repository_name))))
             ELSE IF IsSome(workspace_opt)
             THEN Ok(Some(Unwrap(workspace_opt).root))
             ELSE Ok(None)
    ELSE LET repository == Unwrap(label.repo)
             dumped == IF IsSome(workspace_opt)
                       THEN repo_mapping_for_file(Unwrap(workspace_opt), current_file, outcome)
                       ELSE Err("NoWorkspace")
             repo_mapping == IF dumped.ok THEN dumped.val ELSE EmptyMapping
             remote == remote_repository_name(repo_mapping, repository.name)
         IN  IF IsSome(workspace_opt)
                /\ Unwrap(workspace_opt).workspace_name = Some(remote)
             THEN Ok(Some(Unwrap(workspace_opt).root))
             ELSE IF IsSome(workspace_opt)
             THEN Ok(Some(get_repository_path(Unwrap(workspace_opt), remote)))
             ELSE Err("UnknownRepository")

\* resolve_root, were the workspace root preferred to the repository of the
\* current file
resolve_root_workspace_first(label, current_file, workspace_opt, outcome) ==
    IF label.repo = None
    THEN IF IsSome(workspace_opt)
         THEN Ok(Some(Unwrap(workspace_opt).root))
         ELSE Ok(None)
    ELSE LET repository == Unwrap(label.repo)
             dumped == IF IsSome(workspace_opt)
                       THEN repo_mapping_for_file(Unwrap(workspace_opt), current_file, outcome)
                       ELSE Err("NoWorkspace")
             repo_mapping == IF dumped.ok THEN dumped.val ELSE EmptyMapping
             remote == remote_repository_name(repo_mapping, repository.name)
         IN  IF IsSome(workspace_opt)
                /\ Unwrap(workspace_opt).workspace_name = Some(repository.name)
             THEN Ok(Some(Unwrap(workspace_opt).root))
             ELSE IF IsSome(workspace_opt)
             THEN Ok(Some(get_repository_path(Unwrap(workspace_opt), remote)))
             ELSE Err("UnknownRepository")

\* The root resolve_folder resolves from: Ok(Some(dir)), Ok(None) when
\* there is none, or the UnknownRepository error
resolve_root(label, current_file, workspace_opt, outcome) ==
    IF label.repo = None
    THEN LET repository_name ==
                 IF IsSome(workspace_opt)
                 THEN get_repository_for_lspurl(Unwrap(workspace_opt), current_file)
                 ELSE None
         IN  IF IsSome(repository_name)
             THEN Ok(Some(get_repository_path(Unwrap(workspace_opt),
                                              Unwrap(repository_name))))
             ELSE IF IsSome(workspace_opt)
             THEN Ok(Some(Unwrap(workspace_opt).root))
             ELSE Ok(None)
    ELSE LET repository == Unwrap(label.repo)
             dumped == IF IsSome(workspace_opt)
                       THEN repo_mapping_for_file(Unwrap(workspace_opt), current_file, outcome)
                       ELSE Err("NoWorkspace")
             repo_mapping == IF dumped.ok THEN dumped.val ELSE EmptyMapping
             remote == remote_repository_name(repo_mapping, repository.name)
         IN  IF IsSome(workspace_opt)
                /\ Unwrap(workspace_opt).workspace_name = Some(repository.name)
             THEN Ok(Some(Unwrap(workspace_opt).root))
             ELSE IF IsSome(workspace_opt)
             THEN Ok(Some(get_repository_path(Unwrap(workspace_opt), remote)))
             ELSE Err("UnknownRepository")

\* resolve_folder, were a package-less label resolved from the root
resolve_folder_from_root(label, current_file, workspace_opt, outcome) ==
    LET root == resolve_root(label, current_file, workspace_opt, outcome)
    IN  IF ~root.ok THEN root
        ELSE IF IsSome(root.val)
        THEN Ok(Join(Unwrap(root.val),
                     IF IsSome(label.package) THEN Unwrap(label.package) ELSE <<>>))
        ELSE IF IsSome(label.package) THEN Err("MissingWorkspaceRoot")
        ELSE IF current_file.scheme = "file"
        THEN LET current_file_dir == Parent(current_file.path)
             IN  IF IsSome(current_file_dir)
                 THEN Ok(Unwrap(current_file_dir))
                 ELSE Err("MissingCurrentFilePath")
        ELSE Err("WrongScheme")

\* resolve_folder, were every current file without a directory reported alike
resolve_folder_missing_path(label, current_file, workspace_opt, outcome) ==
    LET root == resolve_root(label, current_file, workspace_opt, outcome)
    IN  IF ~root.ok THEN root
        ELSE IF IsSome(label.package)
        THEN IF IsSome(root.val)
             THEN Ok(Join(Unwrap(root.val), Unwrap(label.package)))
             ELSE Err("MissingWorkspaceRoot")
        ELSE IF current_file.scheme = "file" /\ IsSome(Parent(current_file.path))
        THEN Ok(Unwrap(Parent(current_file.path)))
        ELSE Err("MissingCurrentFilePath")

\* BazelContext::resolve_folder
resolve_folder(label, current_file, workspace_opt, outcome) ==
    LET root == resolve_root(label, current_file, workspace_opt, outcome)
    IN  IF ~root.ok THEN root
        ELSE IF IsSome(label.package)
        THEN IF IsSome(root.val)
             THEN Ok(Join(Unwrap(root.val), Unwrap(label.package)))
             ELSE Err("MissingWorkspaceRoot")
        ELSE IF current_file.scheme = "file"
        THEN LET current_file_dir == Parent(current_file.path)
             IN  IF IsSome(current_file_dir)
                 THEN Ok(Unwrap(current_file_dir))
                 ELSE Err("MissingCurrentFilePath")
        ELSE Err("WrongScheme")

-----------------------------------------------------------------------------
(* LspContext::resolve_load *)

\* FileType::BUILD_FILE_NAMES, in the order they are tried
BUILD_FILE_NAMES == <<"BUILD", "BUILD.bazel">>

\* the loop over BUILD_FILE_NAMES, from position i on
RECURSIVE find_build_file(_, _)
find_build_file(folder, i) ==
    IF i > Len(BUILD_FILE_NAMES) THEN None
    ELSE IF Exists(JoinName(folder, BUILD_FILE_NAMES[i]))
    THEN Some(JoinName(folder, BUILD_FILE_NAMES[i]))
    ELSE find_build_file(folder, i + 1)

\* ResolveLoadError::TargetNotFound, which carries the text asked for
TargetNotFound(text) == [ok |-> FALSE, err |-> "TargetNotFound", text |-> text]

\* resolve_load once the folder is known
resolve_in_folder(text, folder, name) ==
    LET presumed_path == JoinName(folder, name)
        build_file == find_build_file(folder, 1)
    IN  IF Exists(presumed_path) THEN Ok(File(presumed_path))
        ELSE IF IsSome(build_file) THEN Ok(File(Unwrap(build_file)))
        ELSE TargetNotFound(text)

\* A served request: its result, the cache afterwards, the calls of
\* client.info it made, the workspace it ran against, when it reached
\* resolve_folder the label resolved and the folder obtained, whether it
\* called client.dump_repo_mapping, the patterns it sent to client.query,
\* and for a completion the flags it computed, the root it chose and the
\* directory it listed
Served(result, lookup, label, folder) ==
    [result |-> result, cache |-> lookup.cache, calls |-> lookup.calls,
     dir |-> lookup.dir,
     workspace |-> IF lookup.result.ok THEN lookup.result.val ELSE None,
     label |-> label, folder |-> folder,
     dumped |-> /\ IsSome(label)
                /\ IsSome(Unwrap(label).repo)
                /\ lookup.result.ok
                /\ IsSome(lookup.result.val),
     queries |-> <<>>, flags |-> None, root |-> None, listed |-> None]

\* LspContext::resolve_load
resolve_load(cache, text, current_file, workspace_root, info_outcome, dump_outcome) ==
    LET label == parse(text)
        lookup == workspace(cache, workspace_root, current_file, info_outcome)
    IN  IF ~label.ok
        THEN Served(label, NoLookup(cache), None, None)
        ELSE IF ~lookup.result.ok
        THEN Served(lookup.result, lookup, None, None)
        ELSE LET folder == resolve_folder(label.val, current_file, lookup.result.val,
                                          dump_outcome)
             IN  IF ~folder.ok
                 THEN Served(folder, lookup, Some(label.val), Some(folder))
                 ELSE Served(resolve_in_folder(text, folder.val, label.val.name),
                             lookup, Some(label.val), Some(folder))

-----------------------------------------------------------------------------
(* LspContext::render_as_load *)

\* Path::to_string_lossy of a relative path
RECURSIVE RelativeText(_)
RelativeText(p) ==
    IF p = <<>> THEN <<>>
    ELSE IF Len(p) = 1 THEN <<p[1]>>
    ELSE <<p[1], "/">> \o RelativeText(Tail(p))

\* Path::to_string_lossy of an absolute path
AbsoluteText(p) == IF p = <<>> THEN <<"/">> ELSE <<"/">> \o RelativeText(p)

\* the text of target_path.parent(), empty when there is no parent
ParentText(p, absolute) ==
    IF ~IsSome(Parent(p)) THEN <<>>
    ELSE IF absolute THEN AbsoluteText(Unwrap(Parent(p)))
    ELSE RelativeText(Unwrap(Parent(p)))

\* the (repository, path, path is absolute) triple render_as_load renders
render_target(target_path, workspace_opt, workspace_root) ==
    LET owned == IF IsSome(workspace_opt)
                 THEN get_repository_for_path(Unwrap(workspace_opt), target_path)
                 ELSE None
        stripped == IF IsSome(workspace_root)
                    THEN StripPrefix(target_path, Unwrap(workspace_root))
                    ELSE None
    IN  IF IsSome(owned) THEN <<Some(Unwrap(owned)[1]), Unwrap(owned)[2], FALSE>>
        ELSE IF IsSome(stripped) THEN <<None, Unwrap(stripped), FALSE>>
        ELSE <<None, target_path, TRUE>>

\* render_match without its first arm: every file target rendered in full
render_match_absolute(target, current_file, workspace_opt, workspace_root) ==
    IF target.scheme = "file"
    THEN LET found == render_target(target.path, workspace_opt, workspace_root)
             repository == found[1]
             target_path == found[2]
             target_filename == FileName(target_path)
         IN  IF IsSome(target_filename)
             THEN Ok(<<"@">>
                     \o (IF IsSome(repository) /\ Unwrap(repository) # ""
                         THEN <<Unwrap(repository)>> ELSE <<>>)
                     \o <<"/", "/">>
                     \o ParentText(target_path, found[3])
                     \o <<":", Unwrap(target_filename)>>)
             ELSE Err("MissingTargetFilename")
    ELSE Err("WrongScheme")

\* render_match, were both URLs required to be file URLs
render_match_both_files(target, current_file, workspace_opt, workspace_root) ==
    IF target.scheme # "file" \/ current_file.scheme # "file"
    THEN Err("WrongScheme")
    ELSE render_match_absolute(target, current_file, workspace_opt, workspace_root)

\* the match of render_as_load, once the workspace is known
render_match(target, current_file, workspace_opt, workspace_root) ==
    IF /\ target.scheme = "file"
       /\ current_file.scheme = "file"
       /\ IsSome(Parent(target.path))
       /\ Parent(target.path) = Parent(current_file.path)
    THEN LET target_filename == FileName(target.path)
         IN  IF IsSome(target_filename)
             THEN Ok(<<":", Unwrap(target_filename)>>)
             ELSE Err("MissingTargetFilename")
    ELSE IF target.scheme = "file"
    THEN LET found == render_target(target.path, workspace_opt, workspace_root)
             repository == found[1]
             target_path == found[2]
             target_filename == FileName(target_path)
         IN  IF IsSome(target_filename)
             THEN Ok(<<"@">>
                     \o (IF IsSome(repository) /\ Unwrap(repository) # ""
                         THEN <<Unwrap(repository)>> ELSE <<>>)
                     \o <<"/", "/">>
                     \o ParentText(target_path, found[3])
                     \o <<":", Unwrap(target_filename)>>)
             ELSE Err("MissingTargetFilename")
    ELSE Err("WrongScheme")

\* LspContext::render_as_load
render_as_load(cache, target, current_file, workspace_root, info_outcome) ==
    LET lookup == workspace(cache, workspace_root, current_file, info_outcome)
    IN  IF ~lookup.result.ok
        THEN Served(lookup.result, lookup, None, None)
        ELSE Served(render_match(target, current_file, lookup.result.val, workspace_root),
                    lookup, None, None)

-----------------------------------------------------------------------------
(* Completion: BazelContext::get_filesystem_entries *)

\* str::len, in bytes
RECURSIVE TextLen(_)
TextLen(text) == IF text = <<>> THEN 0 ELSE Len(Head(text)) + TextLen(Tail(text))

\* str::starts_with('@')
StartsWithAt(text) == text # <<>> /\ text[1] = "@"

\* str::contains(char)
Contains(text, token) == \E i \in 1..Len(text) : text[i] = token

\* str::contains("//")
ContainsSlashSlash(text) ==
    \E i \in 1..(Len(text) - 1) : text[i] = "/" /\ text[i + 1] = "/"

\* str::ends_with(char)
EndsWith(text, token) == text # <<>> /\ text[Len(text)] = token

\* str::strip_prefix
StripTextPrefix(text, prefix) ==
    IF Len(prefix) <= Len(text) /\ SubSeq(text, 1, Len(prefix)) = prefix
    THEN Some(SubSeq(text, Len(prefix) + 1, Len(text)))
    ELSE None

\* the elements of a set in the order an iteration yields them
RECURSIVE InOrder(_)
InOrder(set) ==
    IF set = {} THEN <<>>
    ELSE LET x == CHOOSE y \in set : TRUE
         IN  <<x>> \o InOrder(set \ {x})

\* fs::read_dir: the names of the entries of a directory
read_dir(path) ==
    IF path \in Dirs
    THEN Ok(InOrder({ e[Len(e)] : e \in { f \in Files \cup Dirs : Parent(f) = Some(path) /\ f # <<>> } }))
    ELSE Err("Io")

\* the names of the files that can be loaded
LoadableNames == { "defs.bzl" }

\* FileType::from_path
file_type(path) ==
    IF \E i \in 1..Len(BUILD_FILE_NAMES) : FileName(path) = Some(BUILD_FILE_NAMES[i])
    THEN "Build"
    ELSE IF path # <<>> /\ path[Len(path)] \in LoadableNames THEN "Library"
    ELSE "Unknown"

\* What the client may answer to one query: a failure, the matching labels
\* spelled as the pattern spells them (and one label of another package),
\* or labels spelled canonically.
QueryOutcomes == {"fail", "echo", "canonical"}

\* client.query(workspace, pattern): the lines of its output
query(ws, pattern, outcome) ==
    LET module == SubSeq(pattern, 1, Len(pattern) - 1)
    IN  IF outcome = "fail" THEN Err("Query")
        ELSE IF outcome = "echo"
        THEN Ok(<< module \o <<"main">>, <<"/", "/", "other", ":", "t">>, module \o <<"lib">> >>)
        ELSE Ok(<< <<"/", "/", "pkg", ":", "main">> >>)

\* the lines of a query output that start with the module, without it
RECURSIVE strip_lines(_, _)
strip_lines(lines, module) ==
    IF lines = <<>> THEN <<>>
    ELSE LET stripped == StripTextPrefix(Head(lines), module)
         IN  (IF IsSome(stripped) THEN <<Unwrap(stripped)>> ELSE <<>>)
             \o strip_lines(Tail(lines), module)

\* buildable_targets, were every line of the output a target as it is
buildable_targets_unfiltered(module, output) ==
    [targets |-> IF output.ok THEN Some(output.val) ELSE None,
     queries |-> << module \o <<"*">> >>]

\* query_buildable_targets once the client has answered
buildable_targets(module, output) ==
    [targets |-> IF output.ok THEN Some(strip_lines(output.val, module)) ELSE None,
     queries |-> << module \o <<"*">> >>]

\* BazelContext::query_buildable_targets: the targets, if any, and the
\* patterns sent to the client
query_buildable_targets(module, workspace_opt, outcome) ==
    IF ~IsSome(workspace_opt) THEN [targets |-> None, queries |-> <<>>]
    ELSE buildable_targets(module,
                           query(Unwrap(workspace_opt), module \o <<"*">>, outcome))

\* StringCompletionResult
StringCompletionResult(value, insert_text, insert_text_offset, kind) ==
    [value |-> value, insert_text |-> insert_text,
     insert_text_offset |-> insert_text_offset, kind |-> kind]

\* FilesystemCompletionOptions
FilesystemCompletionOptions(directories, files, targets) ==
    [directories |-> directories, files |-> files, targets |-> targets]

\* target_results, were the targets inserted at the start of the text
target_results_at_start(targets, render_base) ==
    [i \in 1..Len(targets) |->
        StringCompletionResult(
            targets[i],
            (IF EndsWith(render_base, ":") THEN <<>> ELSE <<":">>) \o targets[i],
            0, "PROPERTY")]

\* target_results, were the targets prefixed as the files are
target_results_like_files(targets, render_base) ==
    [i \in 1..Len(targets) |->
        StringCompletionResult(
            targets[i],
            (IF EndsWith(render_base, ":") \/ render_base = <<>>
             THEN <<>> ELSE <<":">>) \o targets[i],
            TextLen(render_base), "PROPERTY")]

\* the candidates made of the targets a query returned
target_results(targets, render_base) ==
    [i \in 1..Len(targets) |->
        StringCompletionResult(
            targets[i],
            (IF EndsWith(render_base, ":") THEN <<>> ELSE <<":">>) \o targets[i],
            TextLen(render_base), "PROPERTY")]

\* the candidates of a build file, once its targets have been asked for
asked_results(asked, render_base) ==
    [results |-> IF IsSome(asked.targets)
                 THEN target_results(Unwrap(asked.targets), render_base)
                 ELSE <<>>,
     queries |-> asked.queries]

\* the body of the loop of get_filesystem_entries for one entry: the
\* candidates it pushes and the patterns it sends to the client
entry_results(path, render_base, workspace_opt, options, query_outcome) ==
    LET file_name == path[Len(path)]
    IN  IF path \in Dirs /\ options.directories
        THEN [results |-> <<StringCompletionResult(
                              <<file_name>>,
                              (IF EndsWith(render_base, "/") \/ render_base = <<>>
                               THEN <<>> ELSE <<"/">>) \o <<file_name>>,
                              TextLen(render_base), "FOLDER")>>,
              queries |-> <<>>]
        ELSE IF path \in Files
        THEN IF file_type(path) = "Build"
             THEN IF options.targets
                  THEN asked_results(
                           query_buildable_targets(
                               render_base \o (IF EndsWith(render_base, ":")
                                               THEN <<>> ELSE <<":">>),
                               workspace_opt, query_outcome),
                           render_base)
                  ELSE [results |-> <<>>, queries |-> <<>>]
             ELSE IF options.files # "None"
             THEN IF options.files = "OnlyLoadable" /\ file_type(path) # "Library"
                  THEN [results |-> <<>>, queries |-> <<>>]
                  ELSE [results |-> <<StringCompletionResult(
                                        <<file_name>>,
                                        (IF EndsWith(render_base, ":") \/ render_base = <<>>
                                         THEN <<>> ELSE <<":">>) \o <<file_name>>,
                                        TextLen(render_base), "FILE")>>,
                        queries |-> <<>>]
             ELSE [results |-> <<>>, queries |-> <<>>]
        ELSE [results |-> <<>>, queries |-> <<>>]

\* results.push / results.extend: what one entry gave, then the others
extend_results(first, rest) ==
    [results |-> first.results \o rest.results,
     queries |-> first.queries \o rest.queries]

\* the loop of get_filesystem_entries over the entries of from_path
RECURSIVE entries_results(_, _, _, _, _, _)
entries_results(names, from_path, render_base, workspace_opt, options, query_outcome) ==
    IF names = <<>> THEN [results |-> <<>>, queries |-> <<>>]
    ELSE extend_results(
             entry_results(JoinName(from_path, Head(names)), render_base,
                           workspace_opt, options, query_outcome),
             entries_results(Tail(names), from_path, render_base,
                             workspace_opt, options, query_outcome))

\* FilesystemCompletionRoot
RootPath(path) == [is_path |-> TRUE, path |-> path, str |-> <<>>]
RootString(str) == [is_path |-> FALSE, path |-> <<>>, str |-> str]

\* the folder of a parsed label: the label and the outcome of resolve_folder
labelled_folder(label, folder) ==
    [label |-> Some(label), folder |-> Some(folder), from_path |-> folder]

\* the folder of a label text, once parsed
parsed_folder(label, current_file, workspace_opt, dump_outcome) ==
    IF ~label.ok
    THEN [label |-> None, folder |-> None, from_path |-> label]
    ELSE labelled_folder(label.val,
                         resolve_folder(label.val, current_file, workspace_opt,
                                        dump_outcome))

\* the folder get_filesystem_entries lists: the label it parsed, if any, and
\* the outcome of resolve_folder
entries_folder(from, current_file, workspace_opt, dump_outcome) ==
    IF from.is_path
    THEN [label |-> None, folder |-> None, from_path |-> Ok(from.path)]
    ELSE parsed_folder(parse(from.str), current_file, workspace_opt, dump_outcome)

\* get_filesystem_entries when its loop has run
entries_found(at, found) ==
    [result |-> Ok(found.results), label |-> at.label, folder |-> at.folder,
     queries |-> found.queries, listed |-> Some(at.from_path.val)]

\* get_filesystem_entries when the directory has been read
entries_listed(at, listing, render_base, workspace_opt, options, query_outcome) ==
    IF ~listing.ok
    THEN [result |-> listing, label |-> at.label, folder |-> at.folder,
          queries |-> <<>>, listed |-> Some(at.from_path.val)]
    ELSE entries_found(at, entries_results(listing.val, at.from_path.val, render_base,
                                           workspace_opt, options, query_outcome))

\* get_filesystem_entries when the folder is known
entries_at(at, render_base, workspace_opt, options, query_outcome) ==
    IF ~at.from_path.ok
    THEN [result |-> at.from_path, label |-> at.label, folder |-> at.folder,
          queries |-> <<>>, listed |-> None]
    ELSE entries_listed(at, read_dir(at.from_path.val), render_base, workspace_opt,
                        options, query_outcome)

\* BazelContext::get_filesystem_entries: the candidates appended to the
\* results, or the error, with the label and folder resolved and the
\* patterns sent to the client
get_filesystem_entries(from, current_file, workspace_opt, options, dump_outcome, query_outcome) ==
    entries_at(entries_folder(from, current_file, workspace_opt, dump_outcome),
               IF from.is_path THEN <<>> ELSE from.str,
               workspace_opt, options, query_outcome)

-----------------------------------------------------------------------------
(* Completion: LspContext::get_string_completion_options *)

\* offer_repository_names, were the names offered for every text
offer_repository_names_always(current_value) ==
    TRUE

offer_repository_names(current_value) ==
    \/ current_value = <<>>
    \/ current_value = <<"@">>
    \/ (StartsWithAt(current_value) /\ ~Contains(current_value, "/"))
    \/ (~Contains(current_value, "/") /\ ~Contains(current_value, ":"))

complete_directories(current_value) ==
    /\ (~StartsWithAt(current_value) \/ ContainsSlashSlash(current_value))
    /\ ~Contains(current_value, ":")

\* complete_filenames, were the file names completed while a repository
\* is being typed
complete_filenames_any(current_value) ==
    ~Contains(current_value, "/") \/ Contains(current_value, ":")

complete_filenames(current_value) ==
    /\ (~StartsWithAt(current_value) \/ ContainsSlashSlash(current_value))
    /\ (~Contains(current_value, "/") \/ Contains(current_value, ":"))

\* complete_targets, were targets completed with either kind
complete_targets_any_kind(kind, current_value) ==
    complete_filenames(current_value)

complete_targets(kind, current_value) ==
    kind = "String" /\ complete_filenames(current_value)

\* the candidates made of repository names
name_results(repo_names) ==
    [i \in 1..Len(repo_names) |->
        StringCompletionResult(<<"@", repo_names[i]>>,
                               <<"@", repo_names[i], "/", "/">>, 0, "MODULE")]

\* repository_results, were no name offered when the mapping is not known
repository_results_no_fallback(current_value, workspace_opt, repo_mapping) ==
    IF offer_repository_names(current_value) /\ IsSome(workspace_opt)
    THEN name_results(
             IF repo_mapping.ok
             THEN InOrder({ key \in DOMAIN repo_mapping.val : key # "" })
             ELSE <<>>)
    ELSE <<>>

\* the repository candidates
repository_results(current_value, workspace_opt, repo_mapping) ==
    IF offer_repository_names(current_value) /\ IsSome(workspace_opt)
    THEN name_results(
             IF repo_mapping.ok
             THEN InOrder({ key \in DOMAIN repo_mapping.val : key # "" })
             ELSE InOrder(get_repository_names(Unwrap(workspace_opt))))
    ELSE <<>>

\* the root made of the directory of the document
parent_root(parent) ==
    IF IsSome(parent) THEN Some(RootPath(Unwrap(parent))) ELSE None

\* the root made of the text up to a position
text_root(current_value, pos) ==
    IF pos # 0 THEN Some(RootString(SubSeq(current_value, 1, pos))) ELSE None

\* completion_root, were the text cut at the first separator
completion_root_first(document_uri, current_value) ==
    IF complete_directories(current_value) /\ complete_filenames(current_value)
    THEN parent_root(Parent(document_uri.path))
    ELSE text_root(current_value,
                   Find(current_value,
                        IF complete_directories(current_value) THEN "/" ELSE ":"))

\* the completion root, if one is found
completion_root(document_uri, current_value) ==
    IF complete_directories(current_value) /\ complete_filenames(current_value)
    THEN parent_root(Parent(document_uri.path))
    ELSE text_root(current_value,
                   RFind(current_value,
                         IF complete_directories(current_value) THEN "/" ELSE ":"))

\* completion_options, were directories completed for every partial string
completion_options_all_directories(kind, current_value) ==
    FilesystemCompletionOptions(
        TRUE,
        IF kind = "LoadPath" THEN "OnlyLoadable"
        ELSE IF complete_filenames(current_value) THEN "All"
        ELSE "None",
        complete_targets(kind, current_value))

\* completion_options, were no file completed, whatever the kind, for a
\* partial string whose file names are not completed
completion_options_files_by_flag(kind, current_value) ==
    FilesystemCompletionOptions(
        complete_directories(current_value),
        IF ~complete_filenames(current_value) THEN "None"
        ELSE IF kind = "LoadPath" THEN "OnlyLoadable"
        ELSE "All",
        complete_targets(kind, current_value))

\* the options get_filesystem_entries is given
completion_options(kind, current_value) ==
    FilesystemCompletionOptions(
        complete_directories(current_value),
        IF kind = "LoadPath" THEN "OnlyLoadable"
        ELSE IF complete_filenames(current_value) THEN "All"
        ELSE "None",
        complete_targets(kind, current_value))

\* extended_names, were a failure of get_filesystem_entries dropped
extended_names_dropping_failure(names, entries) ==
    [entries EXCEPT !.result = IF entries.result.ok
                               THEN Ok(names \o entries.result.val)
                               ELSE Ok(names)]

\* the names, extended by get_filesystem_entries
extended_names(names, entries) ==
    [entries EXCEPT !.result = IF entries.result.ok
                               THEN Ok(names \o entries.result.val)
                               ELSE entries.result]

\* get_string_completion_options once the names and the root are known
rooted_results(names, root, document_uri, kind, current_value, workspace_opt, dump_outcome, query_outcome) ==
    IF /\ \/ complete_directories(current_value)
          \/ complete_filenames(current_value)
          \/ complete_targets(kind, current_value)
       /\ IsSome(root)
    THEN extended_names(names,
                        get_filesystem_entries(
                            Unwrap(root), document_uri, workspace_opt,
                            completion_options(kind, current_value),
                            dump_outcome, query_outcome))
    ELSE [result |-> Ok(names), label |-> None, folder |-> None, queries |-> <<>>,
          listed |-> None]

\* get_string_completion_options once the workspace is known
completion_results(document_uri, kind, current_value, workspace_opt, dump_outcome, query_outcome) ==
    rooted_results(
        repository_results(
            current_value, workspace_opt,
            IF IsSome(workspace_opt)
            THEN repo_mapping_for_file(Unwrap(workspace_opt), document_uri, dump_outcome)
            ELSE Err("NoWorkspace")),
        completion_root(document_uri, current_value),
        document_uri, kind, current_value, workspace_opt, dump_outcome, query_outcome)

\* the three flags of get_string_completion_options
completion_flags(kind, current_value) ==
    [directories |-> complete_directories(current_value),
     filenames |-> complete_filenames(current_value),
     targets |-> complete_targets(kind, current_value)]

\* the completion root the request looked for, when it looked for one
chosen_root(document_uri, kind, current_value) ==
    IF \/ complete_directories(current_value)
       \/ complete_filenames(current_value)
       \/ complete_targets(kind, current_value)
    THEN completion_root(document_uri, current_value)
    ELSE None

\* the completion request served after a lookup that succeeded
completed(lookup, done, flags, root) ==
    [Served(done.result, lookup, done.label, done.folder)
       EXCEPT !.dumped = IsSome(lookup.result.val),
              !.queries = done.queries,
              !.flags = Some(flags),
              !.root = root,
              !.listed = done.listed]

\* get_string_completion_options after the lookup of the workspace
looked_up_completion(lookup, document_uri, kind, current_value, dump_outcome, query_outcome) ==
    IF ~lookup.result.ok
    THEN Served(lookup.result, lookup, None, None)
    ELSE completed(lookup,
                   completion_results(document_uri, kind, current_value,
                                      lookup.result.val, dump_outcome, query_outcome),
                   completion_flags(kind, current_value),
                   chosen_root(document_uri, kind, current_value))

\* LspContext::get_string_completion_options
get_string_completion_options(cache, document_uri, kind, current_value, workspace_root, info_outcome, dump_outcome, query_outcome) ==
    looked_up_completion(workspace(cache, workspace_root, document_uri, info_outcome),
                         document_uri, kind, current_value, dump_outcome, query_outcome)

-----------------------------------------------------------------------------
(* Globals of the build language *)

\* BazelContext::get_build_language_proto
get_build_language_proto(cache, uri, info_outcome, language_ok) ==
    LET lookup == workspace(cache, None, uri, info_outcome)
    IN  IF ~lookup.result.ok THEN Served(lookup.result, lookup, None, None)
        ELSE IF lookup.result.val = None
        THEN Served(Err("CannotFindWorkspace"), lookup, None, None)
        ELSE IF language_ok THEN Served(Ok("client"), lookup, None, None)
        ELSE Served(Err("BuildLanguage"), lookup, None, None)

\* BazelContext::get_bazel_globals: the language catalog the client gave,
\* or the built-in one when it gave none
get_bazel_globals(cache, uri, info_outcome, language_ok) ==
    LET proto == get_build_language_proto(cache, uri, info_outcome, language_ok)
    IN  [proto EXCEPT !.result = IF proto.result.ok THEN proto.result ELSE Ok("default")]

-----------------------------------------------------------------------------
(* Inputs of the requests *)

WorkspaceRoots == { <<"ws">>, <<"w2">> }

\* the workspace_root argument of a request
WorkspaceRootArgs == { None } \cup { Some(r) : r \in WorkspaceRoots }

\* the documents requests are made from
CurrentFiles ==
    { File(<<"ws", "BUILD">>),
      File(<<"ws", "pkg", "BUILD.bazel">>),
      File(<<"ob", "external", "foo", "BUILD">>),
      File(<<"ob", "external", "bar", "BUILD">>),
      File(<<"ob">>),
      File(<<"bad", "f">>),
      File(<<>>),
      Starlark(<<"ob", "external", "foo", "BUILD">>),
      Other(<<"ob", "x">>) }

RepositoryNames == { "foo", "app", "alias", "myws", "unk" }

\* the labels resolve_folder is applied to
Labels ==
    { Label(repo, package, "x") :
        repo \in { None } \cup { Some(LabelRepo(n)) : n \in RepositoryNames },
        package \in { None, Some(<<>>), Some(<<"pkg">>) } }

\* the label texts resolve_load is asked to resolve
LabelTexts ==
    { <<":", "x">>, <<"x">>, <<"/", "/", "pkg", ":", "x">>, <<"/", "/", "pkg">>,
      <<"/", "/", ":", "x">>, <<"@", "foo", "/", "/", ":", "x">>,
      <<"@", "app", "/", "/", "pkg", ":", "x">>, <<"@", "alias", "/", "/", "pkg", ":", "x">>,
      <<"@", "myws", "/", "/", "pkg", ":", "x">>, <<"@", "unk", "/", "/", ":", "x">>,
      <<"@", "foo", "/", "pkg">>,
      <<"/", "/", "pkg", ":">>, <<"/", "/", ":", "pkg">>, <<"/", "/", "pkg", ":", "y">>,
      <<"@", "bar", "/", "/", ":", "y">>, <<"/", "/", "pkg", "/", "sub", ":", "y">> }

-----------------------------------------------------------------------------
(* The state machine *)

\* the arguments of a request
Args(text, target, current_file, workspace_root, info_outcome, dump_outcome) ==
    [text |-> text, target |-> target, kind |-> "none", current_file |-> current_file,
     workspace_root |-> workspace_root, info_outcome |-> info_outcome,
     dump_outcome |-> dump_outcome, query_outcome |-> "fail"]

\* the record of a served request
Request(op, args, served) ==
    [op |-> op, text |-> args.text, target |-> args.target, kind |-> args.kind,
     current_file |-> args.current_file,
     workspace_root |-> args.workspace_root,
     dir |-> served.dir, info |-> IF IsSome(served.dir) THEN Some(args.info_outcome) ELSE None,
     calls |-> served.calls, workspace |-> served.workspace,
     label |-> served.label, folder |-> served.folder,
     dump |-> IF served.dumped THEN Some(args.dump_outcome) ELSE None,
     queries |-> served.queries,
     flags |-> served.flags, root |-> served.root, listed |-> served.listed,
     query |-> IF served.queries # <<>> THEN Some(args.query_outcome) ELSE None,
     result |-> served.result]

\* no request is being served: the host has taken the last result
Idle ==
    [op |-> "none", text |-> <<>>, target |-> None, kind |-> "none",
     current_file |-> File(<<>>),
     workspace_root |-> None, dir |-> None, info |-> None,
     calls |-> <<>>, workspace |-> None,
     label |-> None, folder |-> None, dump |-> None,
     queries |-> <<>>, flags |-> None, root |-> None, listed |-> None,
     query |-> None, result |-> Ok(<<>>)]

\* the client's profile after the calls of info a request made
Profiled(calls) ==
    [r \in WorkspaceRoots |->
        profile[r] + Cardinality({ i \in 1..Len(calls) : calls[i].dir = r /\ calls[i].ok })]

\* a request is served: the cache, the profile and the request record change
Serve(op, args, served) ==
    /\ \A r \in WorkspaceRoots : Profiled(served.calls)[r] <= MaxInfoOk
    /\ workspaces' = served.cache
    /\ profile' = Profiled(served.calls)
    /\ last' = Request(op, args, served)

Init ==
    /\ workspaces = <<>>
    /\ profile = [r \in WorkspaceRoots |-> 0]
    /\ last = Idle

\* LspContext::resolve_load
ResolveLoad ==
    /\ last.op = "none"
    /\ \E text \in LabelTexts, current_file \in CurrentFiles,
          workspace_root \in WorkspaceRootArgs,
          info_outcome \in InfoOutcomes, dump_outcome \in DumpOutcomes :
         \E served \in { resolve_load(workspaces, text, current_file, workspace_root,
                                      info_outcome, dump_outcome) } :
           Serve("resolve_load",
                 Args(text, None, current_file, workspace_root, info_outcome, dump_outcome),
                 served)

\* BazelContext::resolve_folder, applied to a label and a workspace of the cache
ResolveFolder ==
    /\ last.op = "none"
    /\ \E label \in Labels, current_file \in CurrentFiles,
          workspace_opt \in { None } \cup { Some(workspaces[r]) : r \in DOMAIN workspaces },
          dump_outcome \in DumpOutcomes :
         \E folder \in { resolve_folder(label, current_file, workspace_opt, dump_outcome) } :
           Serve("resolve_folder", Args(<<>>, None, current_file, None, "fail", dump_outcome),
                 Served(folder, Lookup(None, Ok(workspace_opt), workspaces, <<>>),
                        Some(label), Some(folder)))

\* the files render_as_load is asked to render
Targets ==
    { File(<<"ws", "pkg", "x">>), File(<<"ws", "BUILD">>),
      File(<<"ob", "external", "foo", "pkg", "x">>),
      File(<<"ob", "external", "foo">>), File(<<"elsewhere", "x">>),
      File(<<>>), Starlark(<<"ws", "pkg", "x">>),
      File(<<"ws", "pkg", "gone">>), File(<<"ob", "external", "foo", "x">>),
      File(<<"ob", "external", "bar", "BUILD">>) }

\* LspContext::render_as_load
RenderAsLoad ==
    /\ last.op = "none"
    /\ \E target \in Targets, current_file \in CurrentFiles,
          workspace_root \in WorkspaceRootArgs, info_outcome \in InfoOutcomes :
         \E served \in { render_as_load(workspaces, target, current_file, workspace_root,
                                        info_outcome) } :
           Serve("render_as_load",
                 Args(<<>>, Some(target), current_file, workspace_root, info_outcome, "fail"),
                 served)

\* the partial label texts completion is asked for
PartialTexts ==
    { <<>>, <<"@">>, <<"@", "fo">>, <<"@", "foo", "/">>, <<"@", "foo", ":", "x">>,
      <<"@", "foo", "/", "/">>, <<"@", "app", "/", "/", "pkg", ":">>,
      <<"@", "unk", "/", "/">>, <<"fo">>, <<":", "x">>,
      <<"/", "/">>, <<"/", "/", "pkg", "/", "su">>, <<"/", "/", "pkg", ":">>,
      <<"/", "/", "pkg", ":", "ma">>, <<"/", "/", "nowhere", ":">>,
      <<"sub", "/", "f">> }

\* the documents completion is asked from
DocumentUris ==
    { File(<<"ws", "BUILD">>),
      File(<<"ws", "pkg", "BUILD.bazel">>),
      File(<<"ob", "external", "foo", "BUILD">>),
      File(<<"ob", "external", "bar", "BUILD">>),
      File(<<>>),
      Starlark(<<"ob", "external", "foo", "BUILD">>) }

\* StringCompletionType
StringCompletionTypes == { "String", "LoadPath" }

\* LspContext::get_string_completion_options
GetStringCompletionOptions ==
    /\ last.op = "none"
    /\ \E current_value \in PartialTexts, kind \in StringCompletionTypes,
          document_uri \in DocumentUris, workspace_root \in WorkspaceRootArgs,
          info_outcome \in InfoOutcomes, dump_outcome \in DumpOutcomes,
          query_outcome \in QueryOutcomes :
         \E served \in { get_string_completion_options(
                              workspaces, document_uri, kind, current_value,
                              workspace_root, info_outcome, dump_outcome, query_outcome) } :
           Serve("completion",
                 [Args(current_value, None, document_uri, workspace_root, info_outcome,
                       dump_outcome)
                    EXCEPT !.kind = kind, !.query_outcome = query_outcome],
                 served)

\* LspContext::get_environment
GetEnvironment ==
    /\ last.op = "none"
    /\ \E uri \in CurrentFiles, info_outcome \in InfoOutcomes, language_ok \in BOOLEAN :
         \E served \in { get_bazel_globals(workspaces, uri, info_outcome, language_ok) } :
           Serve("get_environment", Args(<<>>, None, uri, None, info_outcome, "fail"), served)

\* the handler returns to the host, which issues its requests one at a time
Return ==
    /\ last.op # "none"
    /\ last' = Idle
    /\ UNCHANGED <<workspaces, profile>>

Next ==
    \/ ResolveLoad
    \/ ResolveFolder
    \/ RenderAsLoad
    \/ GetStringCompletionOptions
    \/ GetEnvironment
    \/ Return

Spec == Init /\ [][Next]_vars

-----------------------------------------------------------------------------
(* Properties of the workspace cache and of the governing root *)

\* the requests whose handlers look the workspace up and propagate its failure
PropagatingOps == {"resolve_load", "render_as_load", "completion"}

\* the request served by this step looked a workspace up for directory d
LookedUp(request, d) ==
    /\ request.op # "none"
    /\ IsSome(request.dir)
    /\ Unwrap(request.dir) = Ok(Some(d))

\* C1: a lookup for a root that is cached returns the cached snapshot and
\* does not invoke info; a lookup for a root that is not cached invokes info
\* once and, when it succeeds, inserts exactly one entry, keyed by that root;
\* so info succeeds at most once per root.
C1_ReadThroughCache ==
    [][ \A d \in WorkspaceRoots :
          LookedUp(last', d) =>
            /\ d \in DOMAIN workspaces =>
                  /\ last'.calls = <<>>
                  /\ last'.workspace = Some(workspaces[d])
                  /\ workspaces' = workspaces
                  /\ profile' = profile
            /\ d \notin DOMAIN workspaces =>
                  /\ Len(last'.calls) = 1
                  /\ last'.calls[1].dir = d
                  /\ last'.calls[1].ok =>
                        /\ DOMAIN workspaces' = DOMAIN workspaces \cup {d}
                        /\ \A r \in DOMAIN workspaces : workspaces'[r] = workspaces[r]
                        /\ last'.workspace = Some(workspaces'[d])
                        /\ profile'[d] = profile[d] + 1
            /\ \A r \in WorkspaceRoots : profile'[r] <= 1
      ]_vars

\* a cached root is looked up again: no call of info, the snapshot returned
C1_Witness ==
    \E d \in WorkspaceRoots :
        /\ LookedUp(last, d)
        /\ profile[d] = 1
        /\ last.calls = <<>>
        /\ last.workspace = Some(workspaces[d])

\* C2: no request removes or replaces a cached entry, and a lookup for a
\* cached root returns that entry whatever info would answer now.
C2_CacheOnlyGrows ==
    [][ /\ \A r \in DOMAIN workspaces :
              r \in DOMAIN workspaces' /\ workspaces'[r] = workspaces[r]
        /\ \A d \in DOMAIN workspaces :
              LookedUp(last', d) => last'.workspace = Some(workspaces[d])
      ]_vars

\* a request other than resolve_load hits the cache while the client would
\* answer with other metadata than the cached snapshot holds
C2_Witness ==
    \E d \in WorkspaceRoots :
        /\ LookedUp(last, d)
        /\ last.op \in {"render_as_load", "completion", "get_environment"}
        /\ last.calls = <<>>
        /\ Unwrap(last.info) # "fail"
        /\ from_bazel_info(info(d, Unwrap(last.info)).val, query_output_base).val
              # workspaces[d]
        /\ last.workspace = Some(workspaces[d])

\* C3: when info fails on a miss, resolve_load, render_as_load and
\* completion return that failure, info was invoked once, and the cache is
\* as it was: no entry for the root.
C3_InfoFailurePropagates ==
    [][ \A d \in WorkspaceRoots :
          ( /\ LookedUp(last', d)
            /\ last'.op \in PropagatingOps
            /\ d \notin DOMAIN workspaces
            /\ last'.info = Some("fail") ) =>
              /\ last'.result = Err("Info")
              /\ last'.calls = <<[dir |-> d, ok |-> FALSE]>>
              /\ workspaces' = workspaces
              /\ d \notin DOMAIN workspaces'
      ]_vars

\* a request failed with the client's failure while another root is cached
C3_Witness ==
    \E d \in WorkspaceRoots :
        /\ LookedUp(last, d)
        /\ last.op \in PropagatingOps
        /\ last.info = Some("fail")
        /\ last.calls = <<[dir |-> d, ok |-> FALSE]>>
        /\ last.result = Err("Info")
        /\ d \notin DOMAIN workspaces
        /\ workspaces # <<>>

\* the proper ancestors of a path that hold a marker
MarkedAncestors(p) ==
    { a \in { SubSeq(p, 1, k) : k \in 0..(Len(p) - 1) } : Exists(Join(a, <<MarkerName>>)) }

\* the deepest of a set of ancestors of one path
Nearest(dirs) == CHOOSE a \in dirs : \A b \in dirs : Len(b) <= Len(a)

\* C4: the governing root is the workspace_root argument when one is given;
\* otherwise the content of the marker of the nearest proper ancestor of the
\* current file that holds one (a marker that cannot be read fails the
\* request: no farther marker is used); with no marked ancestor, or a
\* current file that is no file URL, there is no workspace and info is not
\* invoked.
C4_GoverningRoot ==
    (last.op # "none" /\ IsSome(last.dir)) =>
        LET dir == Unwrap(last.dir)
            path == last.current_file.path
        IN  IF IsSome(last.workspace_root)
            THEN dir = Ok(last.workspace_root)
            ELSE IF last.current_file.scheme # "file" \/ MarkedAncestors(path) = {}
            THEN /\ dir = Ok(None)
                 /\ last.calls = <<>>
                 /\ last.workspace = None
            ELSE LET marker == Join(Nearest(MarkedAncestors(path)), <<MarkerName>>)
                 IN  IF marker \in DOMAIN MarkerContent
                     THEN dir = Ok(Some(MarkerContent[marker]))
                     ELSE ~dir.ok /\ last.calls = <<>>

\* the current file has two marked ancestors and the nearer one decided
C4_Witness ==
    /\ last.op # "none"
    /\ IsSome(last.dir)
    /\ last.workspace_root = None
    /\ Cardinality(MarkedAncestors(last.current_file.path)) = 2
    /\ Unwrap(last.dir) = Ok(Some(<<"w2">>))

-----------------------------------------------------------------------------
(* Properties of resolve_folder *)

\* the request served last resolved a label into a folder
Resolved == last.op # "none" /\ IsSome(last.label) /\ IsSome(last.folder)

\* the label the request served last resolved
TheLabel == Unwrap(last.label)

\* the outcome of resolve_folder in the request served last
TheFolder == Unwrap(last.folder)

\* the workspace the request served last ran against
TheWorkspace == Unwrap(last.workspace)

\* the repository that contains the current file of the request served
\* last: the first directory under the external store on the path of a file
\* URL, the root repository "" otherwise
CurrentRepository ==
    LET base == TheWorkspace.external_output_base
        path == last.current_file.path
    IN  IF /\ last.current_file.scheme = "file"
           /\ Len(path) > Len(base)
           /\ SubSeq(path, 1, Len(base)) = base
        THEN path[Len(base) + 1]
        ELSE ""

\* the mapping in force in the request served last: what the client dumped
\* for the repository of the current file, nothing when the dump failed or
\* there is no workspace
MappingInForce ==
    IF last.workspace = None \/ last.dump = None THEN EmptyMapping
    ELSE LET dumped == dump_repo_mapping(TheWorkspace, CurrentRepository, Unwrap(last.dump))
         IN  IF dumped.ok THEN dumped.val ELSE EmptyMapping

\* the name of the label's repository after translation
Translated ==
    LET name == Unwrap(TheLabel.repo).name
    IN  IF name \in DOMAIN MappingInForce THEN MappingInForce[name] ELSE name

\* the names of the repositories under the external store of the workspace
RepositoryTable ==
    IF last.workspace = None THEN {}
    ELSE { d[Len(d)] : d \in { e \in Dirs :
                                 /\ Len(e) = Len(TheWorkspace.external_output_base) + 1
                                 /\ SubSeq(e, 1, Len(e) - 1) = TheWorkspace.external_output_base } }

\* C5: resolving a label whose repository, after translation, is neither the
\* workspace's own name nor a repository of the workspace's table fails with
\* UnknownRepository, with or without a workspace, and resolve_load reports
\* that kind and no other.
C5_UnknownRepositoryFails ==
    ( /\ Resolved
      /\ IsSome(TheLabel.repo)
      /\ Translated \notin RepositoryTable
      /\ (IsSome(last.workspace) => TheWorkspace.workspace_name # Some(Translated)) ) =>
        /\ TheFolder = Err("UnknownRepository")
        /\ last.op = "resolve_load" => last.result = Err("UnknownRepository")

\* C6: the name the label writes, before translation, is compared with the
\* workspace's legacy name: when they are equal the root is the workspace
\* root, whatever the mapping and the repository table hold for that name;
\* when they differ the root is the directory of the translated name.
C6_WrittenNameCompared ==
    ( /\ Resolved
      /\ IsSome(TheLabel.repo)
      /\ IsSome(TheLabel.package)
      /\ IsSome(last.workspace) ) =>
        IF TheWorkspace.workspace_name = Some(Unwrap(TheLabel.repo).name)
        THEN TheFolder = Ok(TheWorkspace.root \o Unwrap(TheLabel.package))
        ELSE TheFolder = Ok(TheWorkspace.external_output_base
                              \o (IF Translated = "" THEN <<>> ELSE <<Translated>>)
                              \o Unwrap(TheLabel.package))

\* a label writes the workspace's legacy name, which the mapping translates
\* to another repository and the repository table holds too: the workspace
\* root is used
C6_Witness ==
    /\ Resolved
    /\ IsSome(TheLabel.repo)
    /\ IsSome(TheLabel.package)
    /\ IsSome(last.workspace)
    /\ TheWorkspace.workspace_name = Some(Unwrap(TheLabel.repo).name)
    /\ Translated # Unwrap(TheLabel.repo).name
    /\ Unwrap(TheLabel.repo).name \in RepositoryTable
    /\ TheFolder = Ok(TheWorkspace.root \o Unwrap(TheLabel.package))

\* C6 as stated: when the translated name equals the workspace's legacy name
\* the root is the workspace root.
C6_TranslatedNameCompared ==
    ( /\ Resolved
      /\ IsSome(TheLabel.repo)
      /\ IsSome(TheLabel.package)
      /\ IsSome(last.workspace)
      /\ TheWorkspace.workspace_name = Some(Translated) ) =>
        TheFolder = Ok(TheWorkspace.root \o Unwrap(TheLabel.package))

\* C7: a label's repository is translated with the mapping dumped for the
\* repository that contains the current file ("" when it is in none), a name
\* with no entry is used unchanged, and a failed dump is not propagated:
\* the folder is the one an empty mapping gives.
C7_MappingOfCurrentRepository ==
    ( /\ Resolved
      /\ IsSome(TheLabel.repo)
      /\ IsSome(last.workspace) ) =>
        LET name == Unwrap(TheLabel.repo).name
            dumped == dump_repo_mapping(TheWorkspace, CurrentRepository, Unwrap(last.dump))
            remote == IF dumped.ok /\ name \in DOMAIN dumped.val
                      THEN dumped.val[name] ELSE name
            root == IF TheWorkspace.workspace_name = Some(name)
                    THEN TheWorkspace.root
                    ELSE TheWorkspace.external_output_base
                           \o (IF remote = "" THEN <<>> ELSE <<remote>>)
        IN  /\ IsSome(last.dump)
            /\ IsSome(TheLabel.package) =>
                  TheFolder = Ok(root \o Unwrap(TheLabel.package))
            /\ TheFolder # Err("DumpRepoMapping")
            /\ last.result # Err("DumpRepoMapping")
            /\ (~dumped.ok /\ IsSome(TheLabel.package)) =>
                  TheFolder = Ok((IF TheWorkspace.workspace_name = Some(name)
                                  THEN TheWorkspace.root
                                  ELSE TheWorkspace.external_output_base \o <<name>>)
                                 \o Unwrap(TheLabel.package))

\* the current file is in a repository whose mapping translates the label's
\* name otherwise than the root repository's mapping does
C7_Witness ==
    /\ Resolved
    /\ IsSome(TheLabel.repo)
    /\ IsSome(TheLabel.package)
    /\ IsSome(last.workspace)
    /\ last.dump = Some("bzlmod")
    /\ CurrentRepository = "foo"
    /\ Unwrap(TheLabel.repo).name = "app"
    /\ dump_repo_mapping(TheWorkspace, "", "bzlmod").val["app"] # Translated
    /\ TheFolder = Ok(TheWorkspace.external_output_base \o <<Translated>>
                        \o Unwrap(TheLabel.package))

\* C8: a label with no repository and a package resolves from the directory
\* of the repository that contains the current file when a workspace is
\* available and there is one, else from the workspace root when a workspace
\* is available, else it fails with MissingWorkspaceRoot.
C8_NoRepositoryPrecedence ==
    ( /\ Resolved
      /\ TheLabel.repo = None
      /\ IsSome(TheLabel.package) ) =>
        IF IsSome(last.workspace) /\ CurrentRepository # ""
        THEN TheFolder = Ok(TheWorkspace.external_output_base \o <<CurrentRepository>>
                              \o Unwrap(TheLabel.package))
        ELSE IF IsSome(last.workspace)
        THEN TheFolder = Ok(TheWorkspace.root \o Unwrap(TheLabel.package))
        ELSE TheFolder = Err("MissingWorkspaceRoot")

\* the current file is in an external repository: the package is resolved
\* in that repository, not in the workspace root
C8_Witness ==
    /\ Resolved
    /\ TheLabel.repo = None
    /\ TheLabel.package = Some(<<"pkg">>)
    /\ IsSome(last.workspace)
    /\ CurrentRepository = "foo"
    /\ TheFolder = Ok(<<"ob", "external", "foo", "pkg">>)
    /\ TheFolder # Ok(TheWorkspace.root \o <<"pkg">>)

\* C9: when resolve_folder succeeds for a label with no package, the folder
\* is the parent directory of the current file.
C9_PackagelessIsRelative ==
    ( /\ Resolved
      /\ TheLabel.package = None
      /\ TheFolder.ok ) =>
        /\ last.current_file.path # <<>>
        /\ TheFolder.val = SubSeq(last.current_file.path, 1,
                                  Len(last.current_file.path) - 1)

\* a package-less label that names a repository is resolved with a
\* workspace from a file below the workspace root: the folder is the file's
\* directory, which is neither the workspace root nor the repository's
C9_Witness ==
    /\ Resolved
    /\ TheLabel.package = None
    /\ IsSome(TheLabel.repo)
    /\ IsSome(last.workspace)
    /\ TheFolder = Ok(<<"ws", "pkg">>)
    /\ TheWorkspace.root = <<"ws">>
    /\ Translated \in RepositoryTable

\* C10: resolving a package-less label from a current file that is no file
\* URL fails with WrongScheme (with UnknownRepository when the label names a
\* repository and there is no workspace); MissingCurrentFilePath is the
\* failure of a file URL whose path has no parent.
C10_WrongSchemeForNonFile ==
    ( /\ Resolved
      /\ TheLabel.package = None ) =>
        /\ last.current_file.scheme # "file" =>
              /\ TheFolder = Err(IF IsSome(TheLabel.repo) /\ last.workspace = None
                                 THEN "UnknownRepository" ELSE "WrongScheme")
              /\ last.op = "resolve_load" => last.result = TheFolder
        /\ TheFolder = Err("MissingCurrentFilePath") =>
              /\ last.current_file.scheme = "file"
              /\ last.current_file.path = <<>>

\* resolve_load of a package-less label from a starlark: URL fails with
\* WrongScheme
C10_Witness ==
    /\ Resolved
    /\ last.op = "resolve_load"
    /\ TheLabel.package = None
    /\ last.current_file.scheme # "file"
    /\ last.result = Err("WrongScheme")

\* C10 as stated: resolving a package-less label from a current file that is
\* no file URL fails with MissingCurrentFilePath.
C10_MissingCurrentFilePathForNonFile ==
    ( /\ Resolved
      /\ TheLabel.package = None
      /\ last.current_file.scheme # "file" ) =>
        TheFolder = Err("MissingCurrentFilePath")

-----------------------------------------------------------------------------
(* Properties of resolve_load *)

\* resolve_load was served last and reached the search in the folder
Searched == last.op = "resolve_load" /\ IsSome(last.folder) /\ TheFolder.ok

\* the build-file names that exist in a directory, by position in the list
BuildFilesIn(dir) ==
    { i \in 1..Len(BUILD_FILE_NAMES) : (dir \o <<BUILD_FILE_NAMES[i]>>) \in Files \cup Dirs }

\* directory/target_name
Presumed == JoinName(TheFolder.val, TheLabel.name)

\* C11: resolve_load returns directory/target_name when it exists, otherwise
\* the first existing build-file name of the ordered list inside the
\* directory, otherwise TargetNotFound with the text asked for; and every
\* URL it returns lies directly inside the directory resolve_folder computed.
C11_ResolveLoadOrder ==
    Searched =>
        /\ IF Presumed \in Files \cup Dirs
           THEN last.result = Ok(File(Presumed))
           ELSE IF BuildFilesIn(TheFolder.val) # {}
           THEN \E i \in BuildFilesIn(TheFolder.val) :
                   /\ \A j \in BuildFilesIn(TheFolder.val) : i <= j
                   /\ last.result = Ok(File(TheFolder.val \o <<BUILD_FILE_NAMES[i]>>))
           ELSE last.result = TargetNotFound(last.text)
        /\ last.result.ok =>
              /\ last.result.val.path # <<>>
              /\ SubSeq(last.result.val.path, 1, Len(last.result.val.path) - 1)
                    = TheFolder.val

\* C12: resolve_load returns directory/target_name only when it is a file;
\* it never returns the URL of a directory.
C12_NeverADirectory ==
    Searched =>
        /\ last.result.ok => last.result.val.path \notin Dirs
        /\ Presumed \in Dirs =>
              last.result # Ok(File(Presumed))

-----------------------------------------------------------------------------
(* Properties of render_as_load *)

\* render_as_load was served last
Rendered == last.op = "render_as_load"

\* the target of the request served last
TheTarget == Unwrap(last.target)

\* the lookup of the workspace failed in the request served last: the
\* marker could not be read, or info failed
LookupFailed ==
    /\ IsSome(last.dir)
    /\ \/ ~Unwrap(last.dir).ok
       \/ \E i \in 1..Len(last.calls) : ~last.calls[i].ok

\* target and current file are file URLs with the same parent directory
SamePackage ==
    /\ TheTarget.scheme = "file"
    /\ last.current_file.scheme = "file"
    /\ TheTarget.path # <<>>
    /\ last.current_file.path # <<>>
    /\ SubSeq(TheTarget.path, 1, Len(TheTarget.path) - 1)
          = SubSeq(last.current_file.path, 1, Len(last.current_file.path) - 1)

\* resolve_load of a rendered text, asked next from the same current file,
\* returns the target whatever the client answers
RoundTrip(text) ==
    \A info_outcome \in InfoOutcomes, dump_outcome \in DumpOutcomes :
        resolve_load(workspaces, text, last.current_file, last.workspace_root,
                     info_outcome, dump_outcome).result = Ok(TheTarget)

\* C13: for a target and a current file that are file URLs with the same
\* parent directory, render_as_load fails only with the failure of the
\* workspace lookup it makes first; otherwise it returns ':' followed by the
\* file name of the target, and when the target exists resolve_load of that
\* text from the same current file returns the target's URL.
C13_SamePackageRoundTrip ==
    (Rendered /\ SamePackage) =>
        IF LookupFailed
        THEN /\ ~last.result.ok
             /\ last.result.err \in {"Info", "Io"}
        ELSE /\ last.result = Ok(<<":", TheTarget.path[Len(TheTarget.path)]>>)
             /\ TheTarget.path \in Files \cup Dirs => RoundTrip(last.result.val)

\* an existing file is rendered from a build file of its directory and the
\* rendered text resolves to it
C13_Witness ==
    /\ Rendered
    /\ SamePackage
    /\ TheTarget # last.current_file
    /\ TheTarget.path \in Files
    /\ last.result = Ok(<<":", "x">>)
    /\ RoundTrip(last.result.val)

\* C13 as stated: render_as_load of a target in the directory of the
\* current file returns ':' followed by the file name, and the text resolves
\* to the target when it exists.
C13_AlwaysRendersRelative ==
    (Rendered /\ SamePackage) =>
        /\ last.result = Ok(<<":", TheTarget.path[Len(TheTarget.path)]>>)
        /\ TheTarget.path \in Files \cup Dirs => RoundTrip(last.result.val)

\* C14: once the workspace lookup has succeeded, render_as_load fails with
\* WrongScheme exactly when the target is no file URL; a file target is
\* rendered in the absolute form when only the current file is no file URL.
\* A failure of the lookup is returned whatever the URLs are.
C14_WrongSchemeOfTarget ==
    Rendered =>
        IF LookupFailed
        THEN ~last.result.ok /\ last.result.err \in {"Info", "Io"}
        ELSE /\ TheTarget.scheme # "file" <=> last.result = Err("WrongScheme")
             /\ (TheTarget.scheme = "file" /\ last.current_file.scheme # "file") =>
                   IF last.result.ok
                   THEN SubSeq(last.result.val, 1, 3) = <<"@", "/", "/">>
                           \/ SubSeq(last.result.val, 3, 4) = <<"/", "/">>
                   ELSE last.result = Err("MissingTargetFilename")

\* a file target is rendered from a current file that is no file URL
C14_Witness ==
    /\ Rendered
    /\ TheTarget.scheme = "file"
    /\ last.current_file.scheme # "file"
    /\ last.result.ok
    /\ SubSeq(last.result.val, 1, 1) = <<"@">>

\* C14 as stated: render_as_load fails with WrongScheme whenever the target
\* or the current file is no file URL.
C14_WrongSchemeOfEither ==
    ( /\ Rendered
      /\ (TheTarget.scheme # "file" \/ last.current_file.scheme # "file") ) =>
        last.result = Err("WrongScheme")

\* the text @<repository>//<package>:<filename> of a path, relative or not
Rendering(repository, path, absolute) ==
    <<"@">> \o (IF repository = "" THEN <<>> ELSE <<repository>>) \o <<"/", "/">>
    \o (IF Len(path) = 1 THEN (IF absolute THEN <<"/">> ELSE <<>>)
        ELSE IF absolute THEN AbsoluteText(SubSeq(path, 1, Len(path) - 1))
        ELSE RelativeText(SubSeq(path, 1, Len(path) - 1)))
    \o <<":", path[Len(path)]>>

\* the path p lies strictly below the directory
Below(p, directory) ==
    Len(p) > Len(directory) /\ SubSeq(p, 1, Len(directory)) = directory

\* the workspace root known to the request served last, if any
KnownRoot ==
    IF IsSome(last.workspace_root) THEN last.workspace_root
    ELSE IF IsSome(last.workspace) THEN Some(TheWorkspace.root)
    ELSE None

\* C15: a file target that is not in the directory of the current file is
\* rendered with the repository that owns it and its path in that
\* repository; else, when a workspace root is known, with no repository and
\* its path below the workspace root; else with its raw path.
C15_RenderPrecedence ==
    ( /\ Rendered
      /\ ~LookupFailed
      /\ TheTarget.scheme = "file"
      /\ ~SamePackage
      /\ last.result.ok ) =>
        LET path == TheTarget.path
        IN  IF IsSome(last.workspace)
               /\ Below(path, TheWorkspace.external_output_base)
            THEN LET base == TheWorkspace.external_output_base
                 IN  last.result.val =
                        Rendering(path[Len(base) + 1],
                                  SubSeq(path, Len(base) + 2, Len(path)), FALSE)
            ELSE IF IsSome(KnownRoot) /\ Below(path, Unwrap(KnownRoot))
            THEN last.result.val =
                    Rendering("", SubSeq(path, Len(Unwrap(KnownRoot)) + 1, Len(path)),
                              FALSE)
            ELSE last.result.val = Rendering("", path, TRUE)

-----------------------------------------------------------------------------
(* Properties of completion *)

\* a completion request was served last and succeeded
Completed == last.op = "completion" /\ last.result.ok

\* the candidates of the completion served last, of one kind
CandidatesOf(kind) ==
    { last.result.val[i] : i \in { j \in 1..Len(last.result.val) :
                                       last.result.val[j].kind = kind } }

\* the token occurs in the partial string
Has(token) == \E i \in 1..Len(last.text) : last.text[i] = token

\* the partial string starts with '@'
AtFirst == last.text # <<>> /\ last.text[1] = "@"

\* the partial string contains "//"
HasSlashSlash ==
    \E i \in 1..(Len(last.text) - 1) : last.text[i] = "/" /\ last.text[i + 1] = "/"

\* the names of the entries of a directory
EntryNames(directory) ==
    { e[Len(e)] : e \in { f \in Files \cup Dirs :
                            Len(f) = Len(directory) + 1
                            /\ SubSeq(f, 1, Len(directory)) = directory } }

\* C16: repository candidates are returned only when the partial string is
\* empty, is "@", starts with '@' and has no '/', or has neither '/' nor
\* ':'; for a string of the form @repo//... none is returned, and the folder
\* and file candidates are entries of the directory the root string
\* resolves to, every subdirectory being a folder candidate while
\* directories are completed.
C16_RepositoryNamesOffered ==
    Completed =>
        /\ CandidatesOf("MODULE") # {} =>
              \/ last.text = <<>>
              \/ last.text = <<"@">>
              \/ (AtFirst /\ ~Has("/"))
              \/ (~Has("/") /\ ~Has(":"))
        /\ (AtFirst /\ HasSlashSlash) =>
              /\ CandidatesOf("MODULE") = {}
              /\ IsSome(last.folder)
              /\ TheFolder.ok
              /\ \A c \in CandidatesOf("FOLDER") :
                    (TheFolder.val \o c.value) \in Dirs
              /\ \A c \in CandidatesOf("FILE") :
                    (TheFolder.val \o c.value) \in Files
              /\ ~Has(":") =>
                    \A name \in EntryNames(TheFolder.val) :
                        (TheFolder.val \o <<name>>) \in Dirs =>
                            \E c \in CandidatesOf("FOLDER") : c.value = <<name>>

\* "@foo//" is completed with a workspace: the folder pkg of the repository
\* is a candidate and no repository is
C16_Witness ==
    /\ Completed
    /\ last.text = <<"@", "foo", "/", "/">>
    /\ IsSome(last.workspace)
    /\ TheFolder = Ok(<<"ob", "external", "foo">>)
    /\ CandidatesOf("MODULE") = {}
    /\ \E c \in CandidatesOf("FOLDER") : c.value = <<"pkg">>

\* a completion request was served last and got past the workspace lookup
Classified == last.op = "completion" /\ IsSome(last.flags)

\* C17: complete_directories = (s does not start with '@' or contains "//")
\* and s has no ':'; complete_filenames = (s does not start with '@' or
\* contains "//") and (s has no '/' or has ':'); complete_targets = the kind
\* is the string kind and complete_filenames. When none holds, as while a
\* repository is being typed, no directory is listed and no folder, file or
\* target candidate is returned.
C17_CompletionFlags ==
    Classified =>
        LET flags == Unwrap(last.flags)
        IN  /\ flags.directories = ((~AtFirst \/ HasSlashSlash) /\ ~Has(":"))
            /\ flags.filenames = ((~AtFirst \/ HasSlashSlash) /\ (~Has("/") \/ Has(":")))
            /\ flags.targets = (last.kind = "String" /\ flags.filenames)
            /\ (AtFirst /\ ~HasSlashSlash) =>
                  /\ flags = [directories |-> FALSE, filenames |-> FALSE, targets |-> FALSE]
                  /\ last.listed = None
                  /\ last.root = None
                  /\ last.queries = <<>>
                  /\ last.result.ok
                  /\ \A i \in 1..Len(last.result.val) : last.result.val[i].kind = "MODULE"

\* "@foo/" is completed from a document whose directory has entries: no
\* flag holds and nothing is listed
C17_Witness ==
    /\ Classified
    /\ last.text = <<"@", "foo", "/">>
    /\ last.kind = "String"
    /\ IsSome(last.workspace)
    /\ EntryNames(SubSeq(last.current_file.path, 1, Len(last.current_file.path) - 1)) # {}
    /\ last.listed = None
    /\ last.result = Ok(<<>>)

\* the partial string up to and including the last occurrence of a token
UpToLast(token) ==
    LET at == CHOOSE i \in 1..Len(last.text) :
                  /\ last.text[i] = token
                  /\ \A j \in (i + 1)..Len(last.text) : last.text[j] # token
    IN  SubSeq(last.text, 1, at)

\* the root string of the completion served last
RootText == Unwrap(last.root).str

\* C18: directories and file names are both completed only when the partial
\* string has neither '/' nor ':', and the root is then the parent directory
\* of the document; when one of the two is completed, the root is the
\* partial string up to and including its last '/' (directories) or ':'
\* (file names), which occurs in it, parsed as a label and resolved by
\* resolve_folder.
C18_RootSelection ==
    Classified =>
        LET flags == Unwrap(last.flags)
            path == last.current_file.path
        IN  /\ (flags.directories /\ flags.filenames) =>
                  /\ ~Has("/") /\ ~Has(":")
                  /\ IF path = <<>>
                     THEN last.root = None /\ last.listed = None
                     ELSE /\ last.root = Some([is_path |-> TRUE,
                                               path |-> SubSeq(path, 1, Len(path) - 1),
                                               str |-> <<>>])
                          /\ last.listed = Some(SubSeq(path, 1, Len(path) - 1))
                  /\ last.label = None
            /\ (flags.directories # flags.filenames) =>
                  /\ Has(IF flags.directories THEN "/" ELSE ":")
                  /\ last.root = Some([is_path |-> FALSE, path |-> <<>>,
                                       str |-> UpToLast(IF flags.directories
                                                        THEN "/" ELSE ":")])
                  /\ IF parse(RootText).ok
                     THEN /\ last.label = Some(parse(RootText).val)
                          /\ last.folder =
                                Some(resolve_folder(parse(RootText).val, last.current_file,
                                                    last.workspace,
                                                    IF IsSome(last.dump)
                                                    THEN Unwrap(last.dump) ELSE "fail"))
                          /\ last.listed = IF TheFolder.ok THEN Some(TheFolder.val) ELSE None
                     ELSE /\ last.result = parse(RootText)
                          /\ last.listed = None

\* "//pkg/su" is completed: the root is "//pkg/", the text up to the last
\* of its three '/', and the directory of the package is listed
C18_Witness ==
    /\ Classified
    /\ last.text = <<"/", "/", "pkg", "/", "su">>
    /\ last.root = Some([is_path |-> FALSE, path |-> <<>>,
                         str |-> <<"/", "/", "pkg", "/">>])
    /\ TheFolder = Ok(<<"ws", "pkg">>)
    /\ last.listed = Some(<<"ws", "pkg">>)
    /\ last.result.ok

\* the root string consumed by the completion served last: empty when the
\* root is the directory of the document
Consumed == IF Unwrap(last.root).is_path THEN <<>> ELSE RootText

\* the candidates of the completion served last that are no repositories
Entries == CandidatesOf("FOLDER") \cup CandidatesOf("FILE") \cup CandidatesOf("PROPERTY")

\* C19: every folder, file and target candidate is inserted at the length
\* of the root string consumed, 0 when the root is the directory of the
\* document, which is at most the length of the partial string; every
\* repository candidate is inserted at 0.
C19_InsertionOffset ==
    Completed =>
        /\ \A c \in CandidatesOf("MODULE") : c.insert_text_offset = 0
        /\ Entries # {} =>
              /\ IsSome(last.root)
              /\ \A c \in Entries :
                    /\ c.insert_text_offset = TextLen(Consumed)
                    /\ c.insert_text_offset <= TextLen(last.text)
                    /\ Unwrap(last.root).is_path => c.insert_text_offset = 0

\* "//pkg:ma" is completed: a target of the package is inserted at 6, the
\* length of "//pkg:", in a text of length 8
C19_Witness ==
    /\ Completed
    /\ last.text = <<"/", "/", "pkg", ":", "ma">>
    /\ TextLen(last.text) = 8
    /\ \E c \in CandidatesOf("PROPERTY") : c.insert_text_offset = 6
    /\ \E c \in CandidatesOf("FILE") : c.insert_text_offset = 6

\* C20: a file candidate is inserted as its bare name when the root string
\* is empty or ends with ':', as ':' and its name otherwise; a target
\* candidate is inserted as its bare name only when the root string ends
\* with ':': with an empty root string it is inserted as ':' and its name.
C20_InsertionPrefix ==
    Completed =>
        /\ \A c \in CandidatesOf("FILE") :
              c.insert_text =
                 (IF Consumed = <<>> \/ Consumed[Len(Consumed)] = ":"
                  THEN <<>> ELSE <<":">>) \o c.value
        /\ \A c \in CandidatesOf("PROPERTY") :
              c.insert_text =
                 (IF Consumed # <<>> /\ Consumed[Len(Consumed)] = ":"
                  THEN <<>> ELSE <<":">>) \o c.value

\* the empty string is completed from a build file: a file of the directory
\* is inserted bare and a target of the package with ':'
C20_Witness ==
    /\ Completed
    /\ last.text = <<>>
    /\ IsSome(last.root)
    /\ Unwrap(last.root).is_path
    /\ \E c \in CandidatesOf("FILE") : c.insert_text = c.value
    /\ \E c \in CandidatesOf("PROPERTY") : c.insert_text = <<":">> \o c.value

\* C20 as stated: file and target candidates alike are inserted bare when
\* the root string is empty or ends with ':', and with ':' otherwise.
C20_SameRuleForTargets ==
    Completed =>
        \A c \in CandidatesOf("FILE") \cup CandidatesOf("PROPERTY") :
            c.insert_text =
               (IF Consumed = <<>> \/ Consumed[Len(Consumed)] = ":"
                THEN <<>> ELSE <<":">>) \o c.value

\* the directory listed by the completion served last
Listed == Unwrap(last.listed)

\* the names of the entries of the listed directory that are directories
ListedDirs == { name \in EntryNames(Listed) : JoinName(Listed, name) \in Dirs }

\* the names of the entries of the listed directory that are files
ListedFiles == { name \in EntryNames(Listed) : JoinName(Listed, name) \in Files }

\* C21: folder candidates are returned only when directories are completed,
\* and then one for every directory of the listed directory; the value of a
\* folder candidate is the name of the directory, and its insertion text is
\* that name, prefixed with '/' unless the root string is empty or ends
\* with '/'.
C21_FolderCandidates ==
    Completed =>
        /\ CandidatesOf("FOLDER") # {} =>
              IsSome(last.listed) /\ Unwrap(last.flags).directories
        /\ \A c \in CandidatesOf("FOLDER") :
              /\ \E name \in ListedDirs : c.value = <<name>>
              /\ c.insert_text =
                    (IF Consumed = <<>> \/ Consumed[Len(Consumed)] = "/"
                     THEN <<>> ELSE <<"/">>) \o c.value
        /\ IsSome(last.listed) /\ Unwrap(last.flags).directories =>
              \A name \in ListedDirs :
                  \E c \in CandidatesOf("FOLDER") : c.value = <<name>>

\* "//pkg/su" is completed: the directory sub of /ws/pkg is a candidate,
\* inserted bare after the root string "//pkg/"
C21_Witness ==
    /\ Completed
    /\ last.text = <<"/", "/", "pkg", "/", "su">>
    /\ last.listed = Some(<<"ws", "pkg">>)
    /\ Consumed = <<"/", "/", "pkg", "/">>
    /\ \E c \in CandidatesOf("FOLDER") :
          c.value = <<"sub">> /\ c.insert_text = <<"sub">>

\* the names of the files of the listed directory that are no build files
ListedPlainFiles ==
    { name \in ListedFiles : file_type(JoinName(Listed, name)) # "Build" }

\* the names of the files of the listed directory that can be loaded
ListedLibraries ==
    { name \in ListedFiles : file_type(JoinName(Listed, name)) = "Library" }

\* C22: a file candidate is the name of a file of the listed directory that
\* is not a build file. With the string kind the file candidates are all
\* these files when file names are completed for the partial string, and
\* none otherwise; with the load-path kind they are the loadable files,
\* whether or not file names are completed for the partial string.
C22_FileCandidates ==
    Completed =>
        /\ CandidatesOf("FILE") # {} => IsSome(last.listed)
        /\ IsSome(last.listed) =>
              { c.value : c \in CandidatesOf("FILE") } =
                  { <<name>> : name \in
                      IF last.kind = "LoadPath" THEN ListedLibraries
                      ELSE IF Unwrap(last.flags).filenames THEN ListedPlainFiles
                      ELSE {} }

\* "//pkg/su" is completed as a load path: file names are not completed for
\* it, and the loadable file of /ws/pkg is a candidate, the other one not
C22_Witness ==
    /\ Completed
    /\ last.kind = "LoadPath"
    /\ last.text = <<"/", "/", "pkg", "/", "su">>
    /\ ~Unwrap(last.flags).filenames
    /\ last.listed = Some(<<"ws", "pkg">>)
    /\ \E c \in CandidatesOf("FILE") : c.value = <<"defs.bzl">>
    /\ \A c \in CandidatesOf("FILE") : c.value # <<"x">>

\* C22 as stated: a file candidate is a file of the listed directory that
\* is not a build file, loadable with the load-path kind, and none is
\* returned when file names are not completed for the partial string.
C22_NoFileUnlessFilenames ==
    Completed =>
        /\ \A c \in CandidatesOf("FILE") :
              /\ IsSome(last.listed)
              /\ \E name \in ListedPlainFiles :
                    /\ c.value = <<name>>
                    /\ last.kind = "LoadPath" => name \in ListedLibraries
        /\ ~Unwrap(last.flags).filenames => CandidatesOf("FILE") = {}

\* the names of the build files of the listed directory
ListedBuildFiles ==
    { name \in ListedFiles : file_type(JoinName(Listed, name)) = "Build" }

\* the completion served last had a workspace
WithWorkspace == IsSome(last.workspace)

\* C23: a build file is never a file candidate. The client is queried only
\* when targets are completed (string kind and complete_filenames) and a
\* workspace is available, and then exactly once for each build file of the
\* listed directory; without a workspace it is not queried at all. With the
\* load-path kind it is never queried and no target candidate is returned.
C23_BuildFileQueries ==
    Completed =>
        /\ IsSome(last.listed) =>
              \A c \in CandidatesOf("FILE") :
                  \A name \in ListedBuildFiles : c.value # <<name>>
        /\ Unwrap(last.flags).targets =
              (last.kind = "String" /\ Unwrap(last.flags).filenames)
        /\ Len(last.queries) =
              IF IsSome(last.listed) /\ Unwrap(last.flags).targets /\ WithWorkspace
              THEN Cardinality(ListedBuildFiles)
              ELSE 0
        /\ CandidatesOf("PROPERTY") # {} => last.queries # <<>>
        /\ last.kind = "LoadPath" =>
              last.queries = <<>> /\ CandidatesOf("PROPERTY") = {}

\* a directory with two build files is listed with targets completed and a
\* workspace: the client is queried twice, and no build file is a candidate
C23_Witness ==
    /\ Completed
    /\ last.kind = "String"
    /\ WithWorkspace
    /\ last.listed = Some(<<"ob", "external", "bar">>)
    /\ Unwrap(last.flags).targets
    /\ Cardinality(ListedBuildFiles) = 2
    /\ Len(last.queries) = 2
    /\ \A c \in CandidatesOf("FILE") : c.value \notin { <<"BUILD">>, <<"BUILD.bazel">> }

\* C23 as stated: whenever targets are completed the client is queried
\* exactly once for each build file of the listed directory, and otherwise
\* not at all.
C23_OneQueryPerBuildFile ==
    Completed =>
        /\ IsSome(last.listed) =>
              \A c \in CandidatesOf("FILE") :
                  \A name \in ListedBuildFiles : c.value # <<name>>
        /\ Len(last.queries) =
              IF IsSome(last.listed) /\ Unwrap(last.flags).targets
              THEN Cardinality(ListedBuildFiles)
              ELSE 0
        /\ last.kind = "LoadPath" =>
              last.queries = <<>> /\ CandidatesOf("PROPERTY") = {}

\* the text starts with the prefix
HasPrefix(text, prefix) ==
    Len(prefix) <= Len(text) /\ SubSeq(text, 1, Len(prefix)) = prefix

\* the text without its first tokens
Without(text, prefix) == SubSeq(text, Len(prefix) + 1, Len(text))

\* the lines the client answered to the queries of the completion served
\* last: none when the query failed
Answered ==
    LET output == query(Unwrap(last.workspace), last.queries[1], Unwrap(last.query))
    IN  IF output.ok THEN { output.val[i] : i \in 1..Len(output.val) } ELSE {}

\* the package the targets are asked of: the root string, closed by ':'
\* unless it ends with one
Module ==
    IF Consumed # <<>> /\ Consumed[Len(Consumed)] = ":"
    THEN Consumed ELSE Consumed \o <<":">>

\* the values of the target candidates of the completion served last
TargetValues == { c.value : c \in CandidatesOf("PROPERTY") }

\* C24: every pattern sent to the client is the root string, closed by ':'
\* when it does not end with one (so ":" for an empty root string),
\* followed by '*'; the target candidates are exactly the returned lines
\* that start with that prefix, without it, and the other lines give none.
C24_QueryPattern ==
    Completed /\ last.queries # <<>> =>
        /\ \A i \in 1..Len(last.queries) : last.queries[i] = Module \o <<"*">>
        /\ TargetValues =
              { Without(line, Module) : line \in
                  { l \in Answered : HasPrefix(l, Module) } }

\* "//pkg:" is completed and the client answers //pkg:main, //other:t and
\* //pkg:lib to //pkg:* : main and lib are the target candidates
C24_Witness ==
    /\ Completed
    /\ last.text = <<"/", "/", "pkg", ":">>
    /\ last.queries = << <<"/", "/", "pkg", ":", "*">> >>
    /\ last.query = Some("echo")
    /\ <<"/", "/", "other", ":", "t">> \in Answered
    /\ TargetValues = { <<"main">>, <<"lib">> }

\* C24 as stated: every pattern sent is the root string followed by '*', and
\* the target candidates are the returned lines that start with the root
\* string, without it.
C24_PatternIsRootString ==
    Completed /\ last.queries # <<>> =>
        /\ \A i \in 1..Len(last.queries) : last.queries[i] = Consumed \o <<"*">>
        /\ TargetValues =
              { Without(line, Consumed) : line \in
                  { l \in Answered : HasPrefix(l, Consumed) } }

\* the client failed to answer the queries of the completion served last
QueryFailed ==
    last.op = "completion" /\ last.queries # <<>> /\ last.query = Some("fail")

\* the completion served last tried to list a directory that cannot be read
ListingFailed ==
    last.op = "completion" /\ IsSome(last.listed) /\ ~read_dir(Listed).ok

C25_ListingWitness ==
    /\ ListingFailed
    /\ last.text = <<"/", "/", "nowhere", ":">>
    /\ last.listed = Some(<<"ws", "nowhere">>)
    /\ last.result = Err("Io")

\* repository names are offered for the partial string
Offered ==
    \/ last.text = <<>>
    \/ last.text = <<"@">>
    \/ (AtFirst /\ ~Has("/"))
    \/ (~Has("/") /\ ~Has(":"))

\* what the client dumped for the repository of the document
Dumped == dump_repo_mapping(TheWorkspace, CurrentRepository, Unwrap(last.dump))

\* the names the repository candidates are made of: the apparent names of
\* the mapping but the empty one, or, when the dump failed, the name of the
\* workspace and the repositories of its external store
OfferedNames ==
    IF Dumped.ok THEN DOMAIN Dumped.val \ {""}
    ELSE (IF IsSome(TheWorkspace.workspace_name)
          THEN {Unwrap(TheWorkspace.workspace_name)} ELSE {})
         \cup RepositoryTable

C26_MappingWitness ==
    /\ Completed
    /\ last.text = <<"@", "fo">>
    /\ WithWorkspace
    /\ last.dump = Some("bzlmod")
    /\ "" \in DOMAIN Dumped.val
    /\ { c.value : c \in CandidatesOf("MODULE") } =
          { <<"@", "app">>, <<"@", "alias">>, <<"@", "foo">> }

\* the part of the partial string a candidate keeps: its tokens up to the
\* insertion offset
Kept(candidate) ==
    SubSeq(last.text, 1,
           CHOOSE k \in 0..Len(last.text) :
               TextLen(SubSeq(last.text, 1, k)) = candidate.insert_text_offset)

\* the text a candidate gives once inserted
Inserted(candidate) == Kept(candidate) \o candidate.insert_text

\* a ':' directly follows a package path that ends with '/'
ColonAfterSlash(text) ==
    \E i \in 2..(Len(text) - 1) :
        /\ text[i - 1] \notin {"/", ":", "@"}
        /\ text[i] = "/"
        /\ text[i + 1] = ":"

\* a '/' follows a ':'
SlashAfterColon(text) ==
    \E i \in 1..Len(text) : \E j \in (i + 1)..Len(text) :
        text[i] = ":" /\ text[j] = "/"

\* C27: the text every folder, file and target candidate gives once
\* inserted at its offset has no ':' directly after a non-empty package path
\* ending with '/', and no '/' after a ':'.
C27_WellFormedInsertion ==
    Completed =>
        \A c \in Entries :
            ~ColonAfterSlash(Inserted(c)) /\ ~SlashAfterColon(Inserted(c))

====
